---- MODULE Spec2Model ----
(***************************************************************************)
(* Verification model of the fixture programs of llm-code-reviewer.        *)
(*                                                                         *)
(* The repository is a set of independent C++ translation units, each one  *)
(* a small program seeded with a defect.  Every program is modelled as its *)
(* own specification over its own group of variables; the variables of the *)
(* other programs stay at their initial values.                            *)
(*                                                                         *)
(*   SpecRace       module_13.cpp   two threads in accessSharedData        *)
(*   SpecSpawn      module_13.cpp   ThreadManager::spawnThreads, and       *)
(*                  module_3.cpp    NetworkManager::startServer            *)
(*   SpecVNumber    verilator_style_bugs.cpp   VNumber                     *)
(*   SpecValidator  verilator_style_bugs.cpp   VValidator::isValidRange    *)
(*   SpecOptions    verilator_style_bugs.cpp   VOptions                    *)
(*   SpecConc       after.cpp   DataManager::processDataConcurrently       *)
(*   SpecHeap       after.cpp   DataProcessor, DataManager, getProcessor   *)
(*   SpecHolder     module_14.cpp   DataHolder, mixedPointerUsage          *)
(*   SpecFile       verilator_style_bugs.cpp   VFileReader                 *)
(*   SpecClean      VCleanExample and CleanSignalHandler                   *)
(*   SpecEdge       pr_simulation.cpp   EdgeDetector                       *)
(*   SpecDelay      pr_simulation.cpp   DelayCalculator                    *)
(*   SpecBuffer     pr_simulation.cpp   SignalBuffer                       *)
(*   SpecPercent    getRangePercent and getPercentile                      *)
(*   SpecSum        after.cpp and before.cpp   DataProcessor::getSum       *)
(***************************************************************************)
EXTENDS Integers, Sequences, FiniteSets, TLC

VARIABLES
    \* ---- module_13.cpp ------------------------------------------------
    sharedCounter,  \* int sharedCounter (module_13.cpp:7)
    mainPc,         \* position of main() in lines 36..43
    accPc,          \* accessSharedData: thread -> "unborn"|"load"|"store"|"done"
    accI,           \* accessSharedData: thread -> loop variable i
    accReg,         \* accessSharedData: thread -> value loaded by sharedCounter++
    accStale,       \* history: thread -> the other thread stored since my load
    storesDone,     \* history: number of completed stores of sharedCounter++
    lostUpdates,    \* history: number of stores that overwrote a newer value
    printed,        \* the values written to std::cout by line 42
    spPc,           \* spawnThreads: "loop"|"scope_exit"|"returned"|"terminated"
    spI,            \* spawnThreads: loop variable i
    spThreads,      \* spawnThreads: the local std::vector<std::thread>
    \* ---- module_3.cpp -------------------------------------------------
    srvPc,          \* startServer: "idle"|"created"|"returned"|"terminated"
    srvHandle,      \* startServer: the local std::thread t
    \* ---- verilator_style_bugs.cpp --------------------------------------
    vnPc,           \* VNumber: "idle" (between calls) | "loop" (in clearAllBits) |
                    \* "returned" (from clearAllBits) | "crashed" | "ctor_threw"
    m_width,        \* VNumber::m_width
    m_value,        \* VNumber::m_value; m_value[i] of the code is m_value[i+1]
    vnI,            \* clearAllBits: loop variable i
    vnAccess,       \* history: the indices clearAllBits has accessed in this call
    vnPast,         \* the memory just past the storage of m_value
    vnCalls,        \* history: calls of clearAllBits begun
    vrArgs,         \* VValidator::isValidRange: <<value, min, max>>
    vrResult,       \* VValidator::isValidRange: <<>> or <<the value returned>>
    m_options,      \* VOptions::m_options, a function from its keys
    m_accessCount,  \* VOptions::m_accessCount
    optRet,         \* VOptions::getOption: <<>> or <<the value last returned>>
    optKey,         \* the key of the last getOption call
    optGets,        \* history: number of getOption calls made
    \* ---- after.cpp: DataManager::processDataConcurrently -----------------
    cmPc,           \* main thread: "before"|"spawn"|"join"|"after"
    cmI,            \* main thread: threads created (spawn), threads joined (join)
    cdSlots,        \* processor -> the storage of DataProcessor::data
    cdSize,         \* processor -> data.size()
    cdBase,         \* data.size() of every processor when the call began
    cdCache,        \* processor -> cachedSum: "null" | "live" | "freed"
    cdFrees,        \* history: processor -> deletes of its cachedSum allocation
    ctPc,           \* worker -> "unborn"|"push_read"|"push_write"|"check"|
                    \*           "delete"|"done"
    ctProc,         \* worker -> index of the processor it is working on
    ctEnd,          \* worker -> the size push_back read (0 when not in use)
    cdOverlap,      \* history: processor -> two workers were inside addData
    cdCrashed,      \* the process was ended by a fault
    \* ---- after.cpp: DataProcessor and DataManager, single-threaded ------
    pState,         \* DataProcessor object -> "unalloc"|"live"|"deleted"
    pData,          \* DataProcessor object -> data
    pCache,         \* DataProcessor object -> cachedSum: 0 (nullptr) or an int
                    \* allocation; kept as it was when the object was deleted
    pFresh,         \* history: object -> getSum was called since the last addData
    iState,         \* int allocation -> "unalloc"|"live"|"freed"
    iVal,           \* int allocation -> the value stored in it
    iOwner,         \* history: int allocation -> the object whose getSum made it
    nextInt,        \* the next int allocation new int(0) returns
    sumRet,         \* <<>> or <<object, value>>: the last getSum call's result
    gState,         \* DataManager -> "unborn"|"alive"|"destroyed"
    gProcs,         \* DataManager -> processors (the vector's elements)
    gCap,           \* DataManager -> processors.capacity()
    gCur,           \* DataManager -> currentProcessor: 0 (nullptr) or an object
    gNew,           \* addProcessor: 0 or its local proc between lines 57 and 58
    gMoved,         \* history: DataManager -> processors reallocated its storage
                    \* since currentProcessor was last assigned
    gpPc,           \* getProcessor / main lines 125..126: "idle"|"constructed"|
                    \* "added"|"evaluated"|"returned"|"used"|"crashed"
    gpRet,          \* getProcessor: the value of its return expression
    tempPtr,        \* main: DataProcessor* temp
    \* ---- module_14.cpp ---------------------------------------------------
    hdState,        \* DataHolder object -> "unborn"|"alive"|"destroyed"
    hdData,         \* DataHolder object -> data: 0 or an int allocation
    hdFrom,         \* history: DataHolder object -> 0 or the object it is a copy of
    aState,         \* int allocation -> "unalloc"|"live"|"freed"
    aVal,           \* int allocation -> the value stored in it
    aDeletes,       \* history: int allocation -> number of deletes applied to it
    mxPc,           \* mixedPointerUsage: "idle"|"l24"|"l25"|"l27"|"done"
    mxRaw,          \* mixedPointerUsage: int* raw
    mxShared,       \* mixedPointerUsage: the pointer std::shared_ptr<int> shared owns
    m14Crashed,     \* the process was ended by a fault
    \* ---- verilator_style_bugs.cpp: VFileReader -----------------------
    frPc,           \* VFileReader: "idle"|"fopen"|"fread"|"check"|"assign"|"returned"
    frFn,           \* the member function called: "readFile" | "readFileCorrect"
    frFile,         \* the file named by the argument filename
    frFp,           \* FILE* fp: 0 (null) or a handle
    frBytes,        \* size_t bytesRead
    frContent,      \* the caller's std::string content: <<>> (empty) or <<file, n>>, the first n bytes of file
    frOld,          \* history: content as it was when the call began
    frRet,          \* <<>> or <<the value the call returned>>
    hState,         \* handle -> "unused"|"open"|"closed"
    hCloses,        \* history: handle -> number of fclose calls on it
    frCalls,        \* history: calls begun
    \* ---- VCleanExample and CleanSignalHandler ------------------------
    ceData,         \* VCleanExample::m_data
    csSignals,      \* CleanSignalHandler::m_signals
    clRet,          \* <<>> or the last query since the last add: <<class, "getAverage", result>> or <<class, "isValidIndex", idx, result>>
    \* ---- pr_simulation.cpp: EdgeDetector -----------------------------
    edState,        \* EdgeDetector object: "unborn" | "alive"
    edNum,          \* the constructor argument numSignals
    m_lastValues,   \* EdgeDetector::m_lastValues; element i of the code is element i+1
    m_currentValues,\* EdgeDetector::m_currentValues; element i of the code is element i+1
    m_edgeCount,    \* EdgeDetector::m_edgeCount
    edRet,          \* <<>> or the last edge query since the last change: <<function, index, result>>
    edTrue,         \* history: number of edge queries that returned true
    edQueries,      \* history: number of edge queries made
    edTicked,       \* history: tick() was called and updateSignal has not been called since
    \* ---- pr_simulation.cpp: DelayCalculator --------------------------
    m_delays,       \* DelayCalculator::m_delays; element i of the code is element i+1
    m_signalMap,    \* DelayCalculator::m_signalMap, a function from its keys
    m_totalDelay,   \* DelayCalculator::m_totalDelay
    dlRet,          \* <<>> or the last getSignalDelay since the last addDelay: <<signal, "value", v>> or <<signal, "out_of_range", index>>
    dlLast,         \* history: signal -> the delay given to the latest addDelay for it
    \* ---- pr_simulation.cpp: SignalBuffer -----------------------------
    sbState,        \* SignalBuffer object: "unborn" | "alive" | "crashed"
    m_buffer,       \* SignalBuffer::m_buffer; element i of the code is element i+1
    m_writeIndex,   \* SignalBuffer::m_writeIndex
    m_capacity,     \* SignalBuffer::m_capacity
    m_wrapped,      \* SignalBuffer::m_wrapped
    sbWritten,      \* history: the values given to write, oldest first
    sbStray,        \* history: a write stored outside m_buffer
    sbRet,          \* <<>> or the last query since the last write: <<"read", offset, index, values it can return>> or <<"getMovingAverage", windowSize, result>>
    \* ---- getRangePercent and getPercentile ---------------------------
    pcFn,           \* the function last called: "getRangePercent" | "getPercentile"
    pcArgs,         \* its arguments <<part, total>> (<<n, total>>)
    pcResult,       \* <<>> or the outcome of the call: <<"value", v>> or <<"fault", 0>>
    \* ---- DataProcessor of after.cpp beside DataProcessor of before.cpp ---
    afData,         \* after.cpp DataProcessor::data
    afCache,        \* after.cpp DataProcessor::cachedSum: <<>> (nullptr) or <<v>>, a live int holding v
    bfData,         \* before.cpp DataProcessor::data
    smRet,          \* <<>> or, since the last addData, <<what getSum of after.cpp returned, what getSum of before.cpp returned>>
    smCached        \* history: the last getSum of after.cpp returned the cached value

raceVars == <<mainPc, accPc, accI, accReg, accStale, storesDone, lostUpdates,
              printed>>
spawnVars == <<spPc, spI, spThreads>>
serverVars == <<srvPc, srvHandle>>

vnVars == <<vnPc, m_width, m_value, vnI, vnAccess, vnPast, vnCalls>>
vrVars == <<vrArgs, vrResult>>
optVars == <<m_options, m_accessCount, optRet, optKey, optGets>>

concVars == <<cmPc, cmI, cdSlots, cdSize, cdBase, cdCache, cdFrees, ctPc,
              ctProc, ctEnd, cdOverlap, cdCrashed>>

dpVars == <<pState, pData, pCache, pFresh, iState, iVal, iOwner, nextInt,
            sumRet>>
mgrVars == <<gState, gProcs, gCap, gCur, gNew, gMoved, gpPc, gpRet, tempPtr>>

holderVars == <<hdState, hdData, hdFrom, aState, aVal, aDeletes, mxPc, mxRaw,
                mxShared, m14Crashed>>

fileVars == <<frPc, frFn, frFile, frFp, frBytes, frContent, frOld, frRet, hState, hCloses, frCalls>>

cleanVars == <<ceData, csSignals, clRet>>

edgeVars == <<edState, edNum, m_lastValues, m_currentValues, m_edgeCount, edRet, edTrue, edQueries, edTicked>>

delayVars == <<m_delays, m_signalMap, m_totalDelay, dlRet, dlLast>>

bufVars == <<sbState, m_buffer, m_writeIndex, m_capacity, m_wrapped, sbWritten, sbStray, sbRet>>

pctVars == <<pcFn, pcArgs, pcResult>>

sumVars == <<afData, afCache, bfData, smRet, smCached>>

vars == <<sharedCounter, raceVars, spawnVars, serverVars, vnVars, vrVars,
          optVars, concVars, dpVars, mgrVars, holderVars, fileVars, cleanVars, edgeVars, delayVars, bufVars, pctVars, sumVars>>

\* What each program leaves alone: the variables of the other programs.
otherThanRace == <<spawnVars, serverVars, vnVars, vrVars, optVars, concVars, dpVars, mgrVars, holderVars, fileVars, cleanVars, edgeVars, delayVars, bufVars, pctVars, sumVars>>
otherThanSpawn == <<raceVars, vnVars, vrVars, optVars, concVars, dpVars, mgrVars, holderVars, fileVars, cleanVars, edgeVars, delayVars, bufVars, pctVars, sumVars>>
otherThanVNumber == <<sharedCounter, raceVars, spawnVars, serverVars, vrVars,
                      optVars, concVars, dpVars, mgrVars, holderVars, fileVars, cleanVars, edgeVars, delayVars, bufVars, pctVars, sumVars>>
otherThanValidator == <<sharedCounter, raceVars, spawnVars, serverVars, vnVars,
                        optVars, concVars, dpVars, mgrVars, holderVars, fileVars, cleanVars, edgeVars, delayVars, bufVars, pctVars, sumVars>>
otherThanConc == <<sharedCounter, raceVars, spawnVars, serverVars, vnVars,
                   vrVars, optVars, dpVars, mgrVars, holderVars, fileVars, cleanVars, edgeVars, delayVars, bufVars, pctVars, sumVars>>
otherThanHeap == <<sharedCounter, raceVars, spawnVars, serverVars, vnVars,
                   vrVars, optVars, concVars, holderVars, fileVars, cleanVars, edgeVars, delayVars, bufVars, pctVars, sumVars>>
otherThanHolder == <<sharedCounter, raceVars, spawnVars, serverVars, vnVars,
                     vrVars, optVars, concVars, dpVars, mgrVars, fileVars, cleanVars, edgeVars, delayVars, bufVars, pctVars, sumVars>>
otherThanOptions == <<sharedCounter, raceVars, spawnVars, serverVars, vnVars,
                      vrVars, concVars, dpVars, mgrVars, holderVars, fileVars, cleanVars, edgeVars, delayVars, bufVars, pctVars, sumVars>>
otherThanSum == <<sharedCounter, raceVars, spawnVars, serverVars, vnVars, vrVars, optVars, concVars, dpVars, mgrVars, holderVars, fileVars, cleanVars, edgeVars, delayVars, bufVars, pctVars>>
otherThanPercent == <<sharedCounter, raceVars, spawnVars, serverVars, vnVars, vrVars, optVars, concVars, dpVars, mgrVars, holderVars, fileVars, cleanVars, edgeVars, delayVars, bufVars, sumVars>>
otherThanBuffer == <<sharedCounter, raceVars, spawnVars, serverVars, vnVars, vrVars, optVars, concVars, dpVars, mgrVars, holderVars, fileVars, cleanVars, edgeVars, delayVars, pctVars, sumVars>>
otherThanDelay == <<sharedCounter, raceVars, spawnVars, serverVars, vnVars, vrVars, optVars, concVars, dpVars, mgrVars, holderVars, fileVars, cleanVars, edgeVars, bufVars, pctVars, sumVars>>
otherThanEdge == <<sharedCounter, raceVars, spawnVars, serverVars, vnVars, vrVars, optVars, concVars, dpVars, mgrVars, holderVars, fileVars, cleanVars, delayVars, bufVars, pctVars, sumVars>>
otherThanClean == <<sharedCounter, raceVars, spawnVars, serverVars, vnVars, vrVars, optVars, concVars, dpVars, mgrVars, holderVars, fileVars, edgeVars, delayVars, bufVars, pctVars, sumVars>>
otherThanFile == <<sharedCounter, raceVars, spawnVars, serverVars, vnVars, vrVars, optVars, concVars, dpVars, mgrVars, holderVars, cleanVars, edgeVars, delayVars, bufVars, pctVars, sumVars>>

(***************************************************************************)
(* module_13.cpp: two threads run accessSharedData (main, lines 36..42)    *)
(***************************************************************************)

\* The loop bound of accessSharedData (1000 in module_13.cpp:27), scaled.
NumIncrements == 3

\* main's two std::thread objects: t1 is created at line 36, t2 at line 37.
AccThreads == {1, 2}

\* The value sharedCounter++ writes back, from the value it loaded.
PostIncrement(v) == v + 1

\* for (int i = 0; i < 1000; i++)
AccLoopCond_Inclusive(i) == i <= NumIncrements

AccLoopCond(i) == i < NumIncrements

\* The state at line 36 of main: no thread object exists yet.
RaceStart ==
    /\ mainPc = "l36"
    /\ accPc = [t \in AccThreads |-> "unborn"]
    /\ accI = [t \in AccThreads |-> 0]
    /\ accReg = [t \in AccThreads |-> 0]
    /\ accStale = [t \in AccThreads |-> FALSE]
    /\ storesDone = 0
    /\ lostUpdates = 0
    /\ printed = <<>>

\* std::thread t1(accessSharedData); std::thread t2(accessSharedData);
MainStartThread(t) ==
    /\ mainPc = (IF t = 1 THEN "l36" ELSE "l37")
    /\ mainPc' = (IF t = 1 THEN "l37" ELSE "l39")
    /\ accPc' = [accPc EXCEPT ![t] = IF AccLoopCond(0) THEN "load" ELSE "done"]
    /\ UNCHANGED <<sharedCounter, accI, accReg, accStale, storesDone,
                   lostUpdates, printed>>
    /\ UNCHANGED otherThanRace

\* sharedCounter++, first half: the read of the global.
AccLoad(t) ==
    /\ accPc[t] = "load"
    /\ accReg' = [accReg EXCEPT ![t] = sharedCounter]
    /\ accStale' = [accStale EXCEPT ![t] = FALSE]
    /\ accPc' = [accPc EXCEPT ![t] = "store"]
    /\ UNCHANGED <<sharedCounter, mainPc, accI, storesDone, lostUpdates, printed>>
    /\ UNCHANGED otherThanRace

\* sharedCounter++, second half: the write of the global; then i++ and the
\* loop test.
AccStore(t) ==
    /\ accPc[t] = "store"
    /\ sharedCounter' = PostIncrement(accReg[t])
    /\ storesDone' = storesDone + 1
    /\ lostUpdates' = lostUpdates + (IF accStale[t] THEN 1 ELSE 0)
    /\ accStale' = [u \in AccThreads |-> IF u = t THEN FALSE
                                         ELSE accPc[u] = "store" \/ accStale[u]]
    /\ accI' = [accI EXCEPT ![t] = accI[t] + 1]
    /\ accPc' = [accPc EXCEPT ![t] = IF AccLoopCond(accI[t] + 1) THEN "load"
                                     ELSE "done"]
    /\ UNCHANGED <<mainPc, accReg, printed>>
    /\ UNCHANGED otherThanRace

\* t1.join(); t2.join();  join blocks until the thread function returned.
MainJoin(t) ==
    /\ mainPc = (IF t = 1 THEN "l39" ELSE "l40")
    /\ accPc[t] = "done"
    /\ mainPc' = (IF t = 1 THEN "l40" ELSE "l42")
    /\ UNCHANGED <<sharedCounter, accPc, accI, accReg, accStale, storesDone,
                   lostUpdates, printed>>
    /\ UNCHANGED otherThanRace

\* std::cout << sharedCounter << std::endl; return 0;
MainPrint ==
    /\ mainPc = "l42"
    /\ printed' = Append(printed, sharedCounter)
    /\ mainPc' = "exit"
    /\ UNCHANGED <<sharedCounter, accPc, accI, accReg, accStale, storesDone,
                   lostUpdates>>
    /\ UNCHANGED otherThanRace

NextRace ==
    \/ \E t \in AccThreads : MainStartThread(t)
    \/ \E t \in AccThreads : AccLoad(t)
    \/ \E t \in AccThreads : AccStore(t)
    \/ \E t \in AccThreads : MainJoin(t)
    \/ MainPrint

(***************************************************************************)
(* module_13.cpp ThreadManager::spawnThreads (lines 15..23) and            *)
(* module_3.cpp NetworkManager::startServer (lines 27..34)                 *)
(*                                                                         *)
(* A std::thread object is "joinable" from its construction with a         *)
(* callable until join() or detach() is called on it; the end of the       *)
(* thread function does not change that.  ~thread() of a joinable object   *)
(* calls std::terminate, which ends the process.                           *)
(***************************************************************************)

\* The number of threads spawnThreads starts (10 in module_13.cpp:17), scaled.
NumSpawned == 3

\* The state of a std::thread constructed with a callable.
NewThreadHandle_Detached == "detached"

NewThreadHandle == "joinable"

\* ~thread(): std::terminate() if the object is joinable.
ThreadDtorTerminates(h) == h = "joinable"

\* for (int i = 0; i < 10; i++)
SpawnLoopCond(i) == i < NumSpawned

\* ThreadManager::spawnThreads has not been entered.
SpawnStart ==
    /\ spPc = "loop"
    /\ spI = 0
    /\ spThreads = <<>>

\* NetworkManager::startServer has not been called.
ServerStart ==
    /\ srvPc = "idle"
    /\ srvHandle = "none"

\* The process runs until std::terminate ends it.
SpawnProcessAlive == spPc # "terminated"

\* threads.push_back(std::thread([this]() { incrementCounter(); })); i++
SpawnPush ==
    /\ spPc = "loop"
    /\ SpawnLoopCond(spI)
    /\ spThreads' = Append(spThreads,
                           [handle |-> NewThreadHandle, pc |-> "load", reg |-> 0])
    /\ spI' = spI + 1
    /\ UNCHANGED <<sharedCounter, spPc, serverVars>>
    /\ UNCHANGED otherThanSpawn

\* The loop test fails: control reaches the closing brace of spawnThreads.
SpawnLoopExit ==
    /\ spPc = "loop"
    /\ ~SpawnLoopCond(spI)
    /\ spPc' = "scope_exit"
    /\ UNCHANGED <<sharedCounter, spI, spThreads, serverVars>>
    /\ UNCHANGED otherThanSpawn

\* The closing brace: the local vector is destroyed, and with it every
\* std::thread it holds.  The function returns to its caller only if no
\* destructor called std::terminate.
SpawnScopeExit ==
    /\ spPc = "scope_exit"
    /\ spPc' = IF \E k \in 1..Len(spThreads) :
                     ThreadDtorTerminates(spThreads[k].handle)
               THEN "terminated" ELSE "returned"
    /\ UNCHANGED <<sharedCounter, spI, spThreads, serverVars>>
    /\ UNCHANGED otherThanSpawn

\* incrementCounter() in a spawned thread: the read of sharedCounter++.
IncLoad(k) ==
    /\ SpawnProcessAlive
    /\ k \in 1..Len(spThreads)
    /\ spThreads[k].pc = "load"
    /\ spThreads' = [spThreads EXCEPT ![k].reg = sharedCounter, ![k].pc = "store"]
    /\ UNCHANGED <<sharedCounter, spPc, spI, serverVars>>
    /\ UNCHANGED otherThanSpawn

\* incrementCounter() in a spawned thread: the write of sharedCounter++; the
\* thread function then returns.
IncStore(k) ==
    /\ SpawnProcessAlive
    /\ k \in 1..Len(spThreads)
    /\ spThreads[k].pc = "store"
    /\ sharedCounter' = PostIncrement(spThreads[k].reg)
    /\ spThreads' = [spThreads EXCEPT ![k].pc = "done"]
    /\ UNCHANGED <<spPc, spI, serverVars>>
    /\ UNCHANGED otherThanSpawn

\* startServer: std::thread t([this]() { while (true) { } });
StartServerCreate ==
    /\ srvPc = "idle"
    /\ srvHandle' = NewThreadHandle
    /\ srvPc' = "created"
    /\ UNCHANGED <<sharedCounter, spawnVars>>
    /\ UNCHANGED otherThanSpawn

\* One turn of the server thread's while (true) loop: it changes nothing.
ServerLoop ==
    /\ srvPc = "created"
    /\ srvHandle # "none"
    /\ UNCHANGED <<sharedCounter, spawnVars, serverVars>>
    /\ UNCHANGED otherThanSpawn

\* The closing brace of startServer: ~thread() of the local t.
StartServerScopeExit ==
    /\ srvPc = "created"
    /\ srvPc' = IF ThreadDtorTerminates(srvHandle) THEN "terminated"
                ELSE "returned"
    /\ UNCHANGED <<sharedCounter, spawnVars, srvHandle>>
    /\ UNCHANGED otherThanSpawn

NextSpawn ==
    \/ SpawnPush
    \/ SpawnLoopExit
    \/ SpawnScopeExit
    \/ \E k \in 1..NumSpawned : IncLoad(k)
    \/ \E k \in 1..NumSpawned : IncStore(k)
    \/ StartServerCreate
    \/ ServerLoop
    \/ StartServerScopeExit

(***************************************************************************)
(* verilator_style_bugs.cpp: VNumber (lines 11..40)                        *)
(***************************************************************************)

\* The widths a VNumber is constructed with range over -MaxWidth..MaxWidth.
MaxWidth == 65

\* The number of clearAllBits calls made on one object.
MaxClearCalls == 2

\* The bits per word of m_value (the 32 of lines 17, 24).
WordBits == 32

\* C++ integer division truncates toward zero.
CppDiv(a, b) ==
    IF (a >= 0) = (b > 0) THEN (IF a >= 0 THEN a ELSE -a) \div (IF b > 0 THEN b ELSE -b)
    ELSE -((IF a >= 0 THEN a ELSE -a) \div (IF b > 0 THEN b ELSE -b))

\* (width + 31) / 32, the argument of m_value.resize in the constructor.
WordsFor(width) == CppDiv(width + (WordBits - 1), WordBits)

\* value & (1 << b)
BitSet(w, b) == (w \div (2 ^ b)) % 2 = 1

\* word |= (1 << b)
OrBit(w, b) == IF BitSet(w, b) THEN w ELSE w + 2 ^ b

\* The loop of setBits from bit i on, applied to the words v.
RECURSIVE SetBitsFrom(_, _, _, _, _)
SetBitsFrom(v, i, lsb, msb, value) ==
    IF i > msb THEN v
    ELSE SetBitsFrom(
             IF BitSet(value, i - lsb)
             THEN [v EXCEPT ![(i \div WordBits) + 1] = OrBit(@, i % WordBits)]
             ELSE v,
             i + 1, lsb, msb, value)

\* The bit ranges and values setBits is called with: inside the width, at
\* most two bits wide, around the boundary between the first two words.
SetBitsArgs(width) ==
    {a \in {0, 1, WordBits} \X {0, 1, WordBits} \X (0..3) :
        /\ a[1] <= a[2]
        /\ a[2] - a[1] <= 1
        /\ a[2] < width}

\* for (size_t i = 0; i <= m_value.size(); i++)
ClearLoopCond_Exclusive(i, size) == i < size

ClearLoopCond(i, size) == i <= size

\* VNumber(int width): m_width(width), m_value.resize((width + 31) / 32, 0).
\* resize takes a size_t: a negative word count converts to a length beyond
\* max_size() and resize throws std::length_error, so no object exists.
VNumberCtor(width) ==
    /\ m_width = width
    /\ IF WordsFor(width) >= 0
       THEN /\ m_value = [k \in 1..WordsFor(width) |-> 0]
            /\ vnPc = "idle"
       ELSE /\ m_value = <<>>
            /\ vnPc = "ctor_threw"
    /\ vnI = 0
    /\ vnAccess = <<>>
    /\ vnPast = "intact"
    /\ vnCalls = 0

VNumberUsable == vnPc \in {"idle", "returned"}

\* void setBits(int lsb, int msb, uint32_t value)
SetBits(lsb, msb, value) ==
    /\ VNumberUsable
    /\ m_value' = SetBitsFrom(m_value, lsb, lsb, msb, value)
    /\ vnPc' = "idle"
    /\ UNCHANGED <<m_width, vnI, vnAccess, vnPast, vnCalls>>
    /\ UNCHANGED otherThanVNumber

\* clearAllBits is entered: size_t i = 0.
ClearBegin ==
    /\ VNumberUsable
    /\ vnCalls < MaxClearCalls
    /\ vnPc' = "loop"
    /\ vnI' = 0
    /\ vnAccess' = <<>>
    /\ vnCalls' = vnCalls + 1
    /\ UNCHANGED <<m_width, m_value, vnPast>>
    /\ UNCHANGED otherThanVNumber

\* One iteration whose index is inside the vector: m_value[i] = 0; i++.
ClearStepInside ==
    /\ vnPc = "loop"
    /\ ClearLoopCond(vnI, Len(m_value))
    /\ vnI < Len(m_value)
    /\ m_value' = [m_value EXCEPT ![vnI + 1] = 0]
    /\ vnAccess' = Append(vnAccess, vnI)
    /\ vnI' = vnI + 1
    /\ UNCHANGED <<vnPc, m_width, vnPast, vnCalls>>
    /\ UNCHANGED otherThanVNumber

\* One iteration whose index is not inside the vector: operator[] does not
\* check, and the write has undefined behaviour.  Either it lands in the
\* memory that follows the storage and the loop goes on, or the process
\* faults (as it does for an empty vector, whose storage is null).
ClearStepOutside ==
    /\ vnPc = "loop"
    /\ ClearLoopCond(vnI, Len(m_value))
    /\ vnI >= Len(m_value)
    /\ vnAccess' = Append(vnAccess, vnI)
    /\ \/ /\ vnPast' = "zeroed"
          /\ vnI' = vnI + 1
          /\ vnPc' = "loop"
       \/ /\ vnPc' = "crashed"
          /\ UNCHANGED <<vnPast, vnI>>
    /\ UNCHANGED <<m_width, m_value, vnCalls>>
    /\ UNCHANGED otherThanVNumber

\* The loop test fails: clearAllBits returns.
ClearEnd ==
    /\ vnPc = "loop"
    /\ ~ClearLoopCond(vnI, Len(m_value))
    /\ vnPc' = "returned"
    /\ UNCHANGED <<m_width, m_value, vnI, vnAccess, vnPast, vnCalls>>
    /\ UNCHANGED otherThanVNumber

NextVNumber ==
    \/ \E a \in SetBitsArgs(m_width) : SetBits(a[1], a[2], a[3])
    \/ ClearBegin
    \/ ClearStepInside
    \/ ClearStepOutside
    \/ ClearEnd

(***************************************************************************)
(* verilator_style_bugs.cpp: VValidator::isValidRange (lines 126..129)     *)
(***************************************************************************)

\* The arguments of isValidRange range over -MaxArg..MaxArg.
MaxArg == 3

ArgRange == (-MaxArg)..MaxArg

\* return value >= min || value <= max;
isValidRange(value, min, max) == value >= min \/ value <= max

ValidatorStart ==
    /\ vrArgs \in ArgRange \X ArgRange \X ArgRange
    /\ vrResult = <<>>

\* A call isValidRange(value, min, max) with the arguments chosen.
CallIsValidRange ==
    /\ vrResult = <<>>
    /\ vrResult' = <<isValidRange(vrArgs[1], vrArgs[2], vrArgs[3])>>
    /\ UNCHANGED vrArgs
    /\ UNCHANGED otherThanValidator

NextValidator == CallIsValidRange

(***************************************************************************)
(* verilator_style_bugs.cpp: VOptions (lines 81..97)                       *)
(***************************************************************************)

\* The number of getOption calls made on one object.
MaxGetCalls == 3

OptionKeys == {"trace", "debug"}
OptionValues == {"", "on", "off"}

\* std::map<std::string, std::string> m_options; int m_accessCount = 0;
OptionsStart ==
    /\ m_options = <<>>
    /\ m_accessCount = 0
    /\ optRet = <<>>
    /\ optKey = ""
    /\ optGets = 0

\* getOption written with m_options[key], which inserts a missing key.
getOption_Subscript(key) ==
    /\ optGets < MaxGetCalls
    /\ m_accessCount' = m_accessCount + 1
    /\ m_options' = IF key \in DOMAIN m_options THEN m_options
                    ELSE [k \in DOMAIN m_options \cup {key} |->
                            IF k = key THEN "" ELSE m_options[k]]
    /\ optRet' = <<m_options'[key]>>
    /\ optKey' = key
    /\ optGets' = optGets + 1
    /\ UNCHANGED otherThanOptions

\* std::string getOption(const std::string& key)
getOption(key) ==
    /\ optGets < MaxGetCalls
    /\ m_accessCount' = m_accessCount + 1
    /\ optRet' = IF key \in DOMAIN m_options THEN <<m_options[key]>> ELSE <<"">>
    /\ optKey' = key
    /\ optGets' = optGets + 1
    /\ UNCHANGED m_options
    /\ UNCHANGED otherThanOptions

\* void setOption(const std::string& key, const std::string& value)
setOption(key, value) ==
    /\ m_options' = [k \in DOMAIN m_options \cup {key} |->
                        IF k = key THEN value ELSE m_options[k]]
    /\ UNCHANGED <<m_accessCount, optRet, optKey, optGets>>
    /\ UNCHANGED otherThanOptions

NextOptions ==
    \/ \E k \in OptionKeys : getOption(k)
    \/ \E k \in OptionKeys, v \in OptionValues : setOption(k, v)

(***************************************************************************)
(* after.cpp: DataManager::processDataConcurrently (lines 69..82) running  *)
(* DataProcessor::addData (lines 17..24) in one thread per value           *)
(*                                                                         *)
(* The workers share the processors with no lock, so every access of data  *)
(* and cachedSum is a data race.  push_back is modelled as the read of the *)
(* vector's end, then the write of the element there and of the new end;   *)
(* the new end is the end read plus one or, where the build reads it       *)
(* again, the current end plus one.  A worker that runs push_back while    *)
(* another is inside addData of the same processor may also fault (a       *)
(* reallocation under the other's feet), and so may the second delete of   *)
(* one cachedSum.                                                          *)
(***************************************************************************)

\* values.size() (5 in after.cpp:119), scaled: one worker per value.
NumValues == 2

\* The processors main adds before the call (after.cpp:111 and 112).
NumProcessors == 2

ConcProcs == 1..NumProcessors
Workers == 1..NumValues

\* The value of worker t: batch[t - 1] of main, 11, 12, ...
BatchValue(t) == 10 + t

\* A slot no push_back has written holds 0; the values pushed are positive.
ConcStart ==
    /\ cmPc = "before"
    /\ cmI = 0
    /\ cdSlots = [p \in ConcProcs |-> [k \in 1..(1 + NumValues) |-> 0]]
    /\ cdSize = [p \in ConcProcs |-> 0]
    /\ cdBase = 0
    /\ cdCache = [p \in ConcProcs |-> "null"]
    /\ cdFrees = [p \in ConcProcs |-> 0]
    /\ ctPc = [t \in Workers |-> "unborn"]
    /\ ctProc = [t \in Workers |-> 1]
    /\ ctEnd = [t \in Workers |-> 0]
    /\ cdOverlap = [p \in ConcProcs |-> FALSE]
    /\ cdCrashed = FALSE

\* A worker is inside addData of processor p: it has begun the call and has
\* not returned from it.
InsideAddData(t, p) ==
    /\ ctProc[t] = p
    /\ ctPc[t] \in {"push_write", "check", "delete"}

\* main before the call: manager.processData(i), single-threaded: addData
\* on every processor.  As in main, it comes before any printResults: no
\* cache exists yet, so nothing is deleted.  One call stands for the ten of
\* main: the elements added before the workers start only shift theirs.
ProcessDataBefore ==
    /\ cmPc = "before"
    /\ cdBase = 0
    /\ \A p \in ConcProcs : cdCache[p] = "null"
    /\ cdSlots' = [p \in ConcProcs |-> [cdSlots[p] EXCEPT ![cdSize[p] + 1] = cdBase + 1]]
    /\ cdSize' = [p \in ConcProcs |-> cdSize[p] + 1]
    /\ cdBase' = cdBase + 1
    /\ UNCHANGED <<cmPc, cmI, cdCache, cdFrees, ctPc, ctProc, ctEnd, cdOverlap,
                   cdCrashed>>
    /\ UNCHANGED otherThanConc

\* Before the call: printResults, single-threaded: getSum on every
\* processor allocates its cachedSum where it is null.
PrintResultsBefore ==
    /\ cmPc = "before"
    /\ \E p \in ConcProcs : cdCache[p] = "null"
    /\ cdCache' = [p \in ConcProcs |-> "live"]
    /\ UNCHANGED <<cmPc, cmI, cdSlots, cdSize, cdBase, cdFrees, ctPc, ctProc,
                   ctEnd, cdOverlap, cdCrashed>>
    /\ UNCHANGED otherThanConc

\* processDataConcurrently is entered.
ConcurrentBegin ==
    /\ cmPc = "before"
    /\ cmPc' = "spawn"
    /\ cmI' = 0
    /\ UNCHANGED <<cdSlots, cdSize, cdBase, cdCache, cdFrees, ctPc, ctProc,
                   ctEnd, cdOverlap, cdCrashed>>
    /\ UNCHANGED otherThanConc

\* for (int val : values) threads.push_back(std::thread(...)): the worker
\* starts its loop over the processors; after the last value main goes on to
\* the join loop.
ConcurrentSpawn ==
    /\ cmPc = "spawn"
    /\ ~cdCrashed
    /\ IF cmI < NumValues
       THEN /\ ctPc' = [ctPc EXCEPT ![cmI + 1] = "push_read"]
            /\ cmI' = cmI + 1
            /\ cmPc' = "spawn"
       ELSE /\ cmPc' = "join"
            /\ cmI' = 0
            /\ UNCHANGED ctPc
    /\ UNCHANGED <<cdSlots, cdSize, cdBase, cdCache, cdFrees, ctProc, ctEnd,
                   cdOverlap, cdCrashed>>
    /\ UNCHANGED otherThanConc

\* The join loop written without the wait for the thread to end.
ConcurrentJoin_NoWait ==
    /\ cmPc = "join"
    /\ ~cdCrashed
    /\ IF cmI < NumValues
       THEN /\ cmI' = cmI + 1
            /\ cmPc' = "join"
       ELSE /\ cmPc' = "after"
            /\ cmI' = cmI
    /\ UNCHANGED <<cdSlots, cdSize, cdBase, cdCache, cdFrees, ctPc, ctProc,
                   ctEnd, cdOverlap, cdCrashed>>
    /\ UNCHANGED otherThanConc

\* for (auto& t : threads) t.join(): join waits for the worker to end; after
\* the last join processDataConcurrently returns.
ConcurrentJoin ==
    /\ cmPc = "join"
    /\ ~cdCrashed
    /\ IF cmI < NumValues
       THEN /\ ctPc[cmI + 1] = "done"
            /\ cmI' = cmI + 1
            /\ cmPc' = "join"
       ELSE /\ cmPc' = "after"
            /\ cmI' = cmI
    /\ UNCHANGED <<cdSlots, cdSize, cdBase, cdCache, cdFrees, ctPc, ctProc,
                   ctEnd, cdOverlap, cdCrashed>>
    /\ UNCHANGED otherThanConc

\* addData, data.push_back(value): the read of the vector's end.  The worker
\* is inside addData from here on.
AddDataPushRead(t) ==
    /\ ~cdCrashed
    /\ ctPc[t] = "push_read"
    /\ ctEnd' = [ctEnd EXCEPT ![t] = cdSize[ctProc[t]]]
    /\ ctPc' = [ctPc EXCEPT ![t] = "push_write"]
    /\ cdOverlap' = [cdOverlap EXCEPT ![ctProc[t]] =
                        @ \/ \E u \in Workers \ {t} : InsideAddData(u, ctProc[t])]
    /\ UNCHANGED <<cmPc, cmI, cdSlots, cdSize, cdBase, cdCache, cdFrees, ctProc,
                   cdCrashed>>
    /\ UNCHANGED otherThanConc

\* addData, data.push_back(value): the element is written at the end that
\* was read and the end is advanced, from the value read or from the value
\* it has now.  With another worker inside addData of the same processor the
\* step may fault instead.
AddDataPushWrite(t) ==
    /\ ~cdCrashed
    /\ ctPc[t] = "push_write"
    /\ LET p == ctProc[t] IN
       \/ /\ cdSlots' = [cdSlots EXCEPT ![p][ctEnd[t] + 1] = BatchValue(t)]
          /\ \E e \in {ctEnd[t] + 1, cdSize[p] + 1} : cdSize' = [cdSize EXCEPT ![p] = e]
          /\ ctPc' = [ctPc EXCEPT ![t] = "check"]
          /\ ctEnd' = [ctEnd EXCEPT ![t] = 0]
          /\ UNCHANGED cdCrashed
       \/ /\ \E u \in Workers \ {t} : InsideAddData(u, p)
          /\ cdCrashed' = TRUE
          /\ UNCHANGED <<cdSlots, cdSize, ctPc, ctEnd>>
    /\ UNCHANGED <<cmPc, cmI, cdBase, cdCache, cdFrees, ctProc, cdOverlap>>
    /\ UNCHANGED otherThanConc

\* The worker leaves addData: the next processor of the range-for, or the
\* end of the thread function.
AfterAddData(t) ==
    IF ctProc[t] < NumProcessors
    THEN /\ ctProc' = [ctProc EXCEPT ![t] = ctProc[t] + 1]
         /\ ctPc' = [ctPc EXCEPT ![t] = "push_read"]
    ELSE /\ ctPc' = [ctPc EXCEPT ![t] = "done"]
         /\ UNCHANGED ctProc

\* addData: if (cachedSum != nullptr)
AddDataCheck(t) ==
    /\ ~cdCrashed
    /\ ctPc[t] = "check"
    /\ IF cdCache[ctProc[t]] # "null"
       THEN /\ ctPc' = [ctPc EXCEPT ![t] = "delete"]
            /\ UNCHANGED ctProc
       ELSE AfterAddData(t)
    /\ UNCHANGED <<cmPc, cmI, cdSlots, cdSize, cdBase, cdCache, cdFrees, ctEnd,
                   cdOverlap, cdCrashed>>
    /\ UNCHANGED otherThanConc

\* addData: delete cachedSum; cachedSum = nullptr;  The pointer deleted is
\* the one the test read or, where the build reads cachedSum again, the
\* current one, which another worker may have set to null (delete of null
\* does nothing).  A second delete of the allocation is undefined: the
\* allocator ends the process, or goes on.
AddDataDelete(t) ==
    /\ ~cdCrashed
    /\ ctPc[t] = "delete"
    /\ LET p == ctProc[t] IN
       \/ /\ cdFrees' = [cdFrees EXCEPT ![p] = @ + 1]
          /\ cdCache' = [cdCache EXCEPT ![p] = "null"]
          /\ AfterAddData(t)
          /\ UNCHANGED cdCrashed
       \/ /\ cdFrees[p] >= 1
          /\ cdFrees' = [cdFrees EXCEPT ![p] = @ + 1]
          /\ cdCrashed' = TRUE
          /\ UNCHANGED <<cdCache, ctPc, ctProc>>
       \/ /\ cdCache[p] = "null"
          /\ AfterAddData(t)
          /\ UNCHANGED <<cdFrees, cdCache, cdCrashed>>
    /\ UNCHANGED <<cmPc, cmI, cdSlots, cdSize, cdBase, ctEnd, cdOverlap>>
    /\ UNCHANGED otherThanConc

NextConc ==
    \/ ProcessDataBefore
    \/ PrintResultsBefore
    \/ ConcurrentBegin
    \/ ConcurrentSpawn
    \/ ConcurrentJoin
    \/ \E t \in Workers : AddDataPushRead(t)
    \/ \E t \in Workers : AddDataPushWrite(t)
    \/ \E t \in Workers : AddDataCheck(t)
    \/ \E t \in Workers : AddDataDelete(t)

(***************************************************************************)
(* after.cpp: DataProcessor (lines 8..45), DataManager (lines 47..100),    *)
(* getProcessor (lines 103..107) and main, single-threaded                 *)
(*                                                                         *)
(* Objects made by new are numbered in the order of their allocation; a    *)
(* pointer is the number of the object it points to, or 0 for nullptr.     *)
(* The storage of the vector processors holds pointers: a reallocation     *)
(* moves the pointers, not the DataProcessor objects they point to.        *)
(***************************************************************************)

\* The DataProcessor objects allocated in one run.
MaxProcs == 2

\* The elements added to one DataProcessor.
MaxData == 2

\* The int allocations made by getSum in one run.
MaxInts == 2

\* The values passed to addData.
DataValues == {1, 2}

ProcIds == 1..MaxProcs
IntIds == 1..MaxInts
Managers == {"main", "temp"}

RECURSIVE SumSeq(_)
SumSeq(q) == IF q = <<>> THEN 0 ELSE q[1] + SumSeq(Tail(q))

\* The state of the DataProcessor objects and of the ints they allocate.
DpNow ==
    [state |-> pState, data |-> pData, cache |-> pCache, fresh |-> pFresh,
     istate |-> iState, ival |-> iVal, iowner |-> iOwner, next |-> nextInt,
     ret |-> sumRet]

SetDp(h) ==
    /\ pState' = h.state
    /\ pData' = h.data
    /\ pCache' = h.cache
    /\ pFresh' = h.fresh
    /\ iState' = h.istate
    /\ iVal' = h.ival
    /\ iOwner' = h.iowner
    /\ nextInt' = h.next
    /\ sumRet' = h.ret

\* void addData(int value): push_back, then the cache is deleted and
\* cachedSum set to nullptr if it was not null.
DpAddData(h, p, v) ==
    [h EXCEPT !.data[p] = Append(@, v),
              !.istate = IF h.cache[p] # 0 THEN [@ EXCEPT ![h.cache[p]] = "freed"]
                         ELSE @,
              !.cache[p] = 0,
              !.fresh[p] = FALSE]

\* int getSum(): the cached value if there is one; otherwise new int(0),
\* to which every element is added, is stored in cachedSum and returned.
DpGetSum(h, p) ==
    IF h.cache[p] # 0
    THEN [h EXCEPT !.ret = <<p, h.ival[h.cache[p]]>>, !.fresh[p] = TRUE]
    ELSE [h EXCEPT !.cache[p] = h.next,
                   !.istate[h.next] = "live",
                   !.ival[h.next] = SumSeq(h.data[p]),
                   !.iowner[h.next] = p,
                   !.next = h.next + 1,
                   !.fresh[p] = TRUE,
                   !.ret = <<p, SumSeq(h.data[p])>>]

\* ~DataProcessor(): the ints it frees.  The destructor body is empty.
ProcDtorFrees_Cache(h, p) == IF h.cache[p] # 0 THEN {h.cache[p]} ELSE {}

ProcDtorFrees(h, p) == {}

\* delete proc: the destructor runs, then the object's memory is freed.
DpDelete(h, p) ==
    [h EXCEPT !.state[p] = "deleted",
              !.istate = [a \in IntIds |->
                            IF a \in ProcDtorFrees(h, p) THEN "freed" ELSE @[a]]]

\* for (auto proc : q) proc->addData(v);
RECURSIVE AddDataEach(_, _, _)
AddDataEach(h, q, v) ==
    IF q = <<>> THEN h ELSE AddDataEach(DpAddData(h, q[1], v), Tail(q), v)

\* for (auto proc : q) ... proc->getSum() ...
RECURSIVE GetSumEach(_, _)
GetSumEach(h, q) ==
    IF q = <<>> THEN h ELSE GetSumEach(DpGetSum(h, q[1]), Tail(q))

\* ~DataManager(): the objects it deletes, for (auto proc : processors).
DtorDeletes_None(q) == <<>>

DtorDeletes(q) == q

RECURSIVE DeleteEach(_, _)
DeleteEach(h, q) ==
    IF q = <<>> THEN h ELSE DeleteEach(DpDelete(h, q[1]), Tail(q))

\* The int allocations a run of getSum over q needs.
NullCaches(h, q) == Cardinality({k \in 1..Len(q) : h.cache[q[k]] = 0})

\* The capacity of a vector of capacity c after a push_back at size n: the
\* storage is reallocated, to twice the size, when it is full.
GrownCap(c, n) == IF n < c THEN c ELSE IF c = 0 THEN 1 ELSE 2 * c

\* A pointer dangles when it is not null and its object is not live.
Dangling(ptr) == ptr # 0 /\ pState[ptr] # "live"

\* The first object not yet allocated.
NextProc == Cardinality({p \in ProcIds : pState[p] # "unalloc"}) + 1

\* main, line 110: DataManager manager; nothing else exists.
HeapStart ==
    /\ pState = [p \in ProcIds |-> "unalloc"]
    /\ pData = [p \in ProcIds |-> <<>>]
    /\ pCache = [p \in ProcIds |-> 0]
    /\ pFresh = [p \in ProcIds |-> FALSE]
    /\ iState = [a \in IntIds |-> "unalloc"]
    /\ iVal = [a \in IntIds |-> 0]
    /\ iOwner = [a \in IntIds |-> 0]
    /\ nextInt = 1
    /\ sumRet = <<>>
    /\ gState = [m \in Managers |-> IF m = "main" THEN "alive" ELSE "unborn"]
    /\ gProcs = [m \in Managers |-> <<>>]
    /\ gCap = [m \in Managers |-> 0]
    /\ gCur = [m \in Managers |-> 0]
    /\ gNew = [m \in Managers |-> 0]
    /\ gMoved = [m \in Managers |-> FALSE]
    /\ gpPc = "idle"
    /\ gpRet = 0
    /\ tempPtr = 0

\* main calls its manager between statements, not inside getProcessor.
MainCanCall ==
    /\ gState["main"] = "alive"
    /\ gNew["main"] = 0
    /\ gpPc \in {"idle", "used"}

\* addProcessor, lines 56..57: proc = new DataProcessor(name);
\* processors.push_back(proc);
AddProcessorPush(m) ==
    /\ gState[m] = "alive"
    /\ gNew[m] = 0
    /\ NextProc <= MaxProcs
    /\ pState' = [pState EXCEPT ![NextProc] = "live"]
    /\ gProcs' = [gProcs EXCEPT ![m] = Append(@, NextProc)]
    /\ gCap' = [gCap EXCEPT ![m] = GrownCap(@, Len(gProcs[m]))]
    /\ gMoved' = [gMoved EXCEPT ![m] = @ \/ (gCap[m] > 0 /\ Len(gProcs[m]) = gCap[m])]
    /\ gNew' = [gNew EXCEPT ![m] = NextProc]
    /\ UNCHANGED <<pData, pCache, pFresh, iState, iVal, iOwner, nextInt, sumRet>>
    /\ UNCHANGED <<gState, gCur, gpPc, gpRet, tempPtr>>
    /\ UNCHANGED otherThanHeap

\* addProcessor, line 58: currentProcessor = proc;
AddProcessorSetCurrent(m) ==
    /\ gState[m] = "alive"
    /\ gNew[m] # 0
    /\ gCur' = [gCur EXCEPT ![m] = gNew[m]]
    /\ gNew' = [gNew EXCEPT ![m] = 0]
    /\ gMoved' = [gMoved EXCEPT ![m] = FALSE]
    /\ UNCHANGED dpVars
    /\ UNCHANGED <<gState, gProcs, gCap, gpPc, gpRet, tempPtr>>
    /\ UNCHANGED otherThanHeap

\* main: manager.addProcessor(...), first half.
MainAddProcessorPush ==
    /\ MainCanCall
    /\ AddProcessorPush("main")

\* main: manager.addProcessor(...), second half.
MainAddProcessorSetCurrent ==
    /\ gpPc \in {"idle", "used"}
    /\ AddProcessorSetCurrent("main")

\* main: manager.processData(value): addData on a copy of processors.
ProcessData(v) ==
    /\ MainCanCall
    /\ gProcs["main"] # <<>>
    /\ \A k \in 1..Len(gProcs["main"]) : Len(pData[gProcs["main"][k]]) < MaxData
    /\ SetDp(AddDataEach(DpNow, gProcs["main"], v))
    /\ UNCHANGED mgrVars
    /\ UNCHANGED otherThanHeap

\* main: manager.printResults(): getSum on every processor.
PrintResults ==
    /\ MainCanCall
    /\ gProcs["main"] # <<>>
    /\ nextInt + NullCaches(DpNow, gProcs["main"]) <= MaxInts + 1
    /\ SetDp(GetSumEach(DpNow, gProcs["main"]))
    /\ UNCHANGED mgrVars
    /\ UNCHANGED otherThanHeap

\* manager.getCurrentProcessor()->addData(value)
CurrentAddData(v) ==
    /\ MainCanCall
    /\ gCur["main"] # 0
    /\ Len(pData[gCur["main"]]) < MaxData
    /\ SetDp(DpAddData(DpNow, gCur["main"], v))
    /\ UNCHANGED mgrVars
    /\ UNCHANGED otherThanHeap

\* manager.getCurrentProcessor()->getSum()
CurrentGetSum ==
    /\ MainCanCall
    /\ gCur["main"] # 0
    /\ nextInt + NullCaches(DpNow, <<gCur["main"]>>) <= MaxInts + 1
    /\ SetDp(DpGetSum(DpNow, gCur["main"]))
    /\ UNCHANGED mgrVars
    /\ UNCHANGED otherThanHeap

\* ~DataManager(): delete every processor; the vector then frees its
\* storage.  currentProcessor keeps its value.
DestroyManager(m) ==
    /\ gState[m] = "alive"
    /\ SetDp(DeleteEach(DpNow, DtorDeletes(gProcs[m])))
    /\ gState' = [gState EXCEPT ![m] = "destroyed"]
    /\ gCap' = [gCap EXCEPT ![m] = 0]
    /\ UNCHANGED <<gProcs, gCur, gNew, gMoved>>

\* main, line 128: return 0 destroys main's manager.
MainExit ==
    /\ MainCanCall
    /\ DestroyManager("main")
    /\ UNCHANGED <<gpPc, gpRet, tempPtr>>
    /\ UNCHANGED otherThanHeap

\* getProcessor, line 104: DataManager manager;
GetProcessorConstruct ==
    /\ gpPc = "idle"
    /\ gNew["main"] = 0
    /\ NextProc <= MaxProcs
    /\ gState' = [gState EXCEPT !["temp"] = "alive"]
    /\ gpPc' = "constructed"
    /\ UNCHANGED dpVars
    /\ UNCHANGED <<gProcs, gCap, gCur, gNew, gMoved, gpRet, tempPtr>>
    /\ UNCHANGED otherThanHeap

\* getProcessor, line 105: manager.addProcessor("TempProcessor"), first half.
GetProcessorAddPush ==
    /\ gpPc = "constructed"
    /\ AddProcessorPush("temp")

\* getProcessor, line 105: manager.addProcessor("TempProcessor"), second half.
GetProcessorAddSetCurrent ==
    /\ gpPc = "constructed"
    /\ gpPc' = "added"
    /\ gState["temp"] = "alive"
    /\ gNew["temp"] # 0
    /\ gCur' = [gCur EXCEPT !["temp"] = gNew["temp"]]
    /\ gNew' = [gNew EXCEPT !["temp"] = 0]
    /\ gMoved' = [gMoved EXCEPT !["temp"] = FALSE]
    /\ UNCHANGED dpVars
    /\ UNCHANGED <<gState, gProcs, gCap, gpRet, tempPtr>>
    /\ UNCHANGED otherThanHeap

\* getProcessor, line 106: the return expression manager.getCurrentProcessor()
\* is evaluated.
GetProcessorEvaluate ==
    /\ gpPc = "added"
    /\ gpRet' = gCur["temp"]
    /\ gpPc' = "evaluated"
    /\ UNCHANGED dpVars
    /\ UNCHANGED <<gState, gProcs, gCap, gCur, gNew, gMoved, tempPtr>>
    /\ UNCHANGED otherThanHeap

\* getProcessor, line 107: the local manager is destroyed; then the function
\* returns and main's temp receives the value (line 125).
GetProcessorReturn ==
    /\ gpPc = "evaluated"
    /\ DestroyManager("temp")
    /\ tempPtr' = gpRet
    /\ gpPc' = "returned"
    /\ UNCHANGED gpRet
    /\ UNCHANGED otherThanHeap

\* main, line 126: temp->getName().  Reading a deleted object is undefined:
\* the read finds what is left of the string, or the process faults.
MainUseTemp ==
    /\ gpPc = "returned"
    /\ \/ gpPc' = "used"
       \/ /\ Dangling(tempPtr)
          /\ gpPc' = "crashed"
    /\ UNCHANGED dpVars
    /\ UNCHANGED <<gState, gProcs, gCap, gCur, gNew, gMoved, gpRet, tempPtr>>
    /\ UNCHANGED otherThanHeap

NextHeap ==
    \/ MainAddProcessorPush
    \/ MainAddProcessorSetCurrent
    \/ \E v \in DataValues : ProcessData(v)
    \/ PrintResults
    \/ \E v \in DataValues : CurrentAddData(v)
    \/ CurrentGetSum
    \/ MainExit
    \/ GetProcessorConstruct
    \/ GetProcessorAddPush
    \/ GetProcessorAddSetCurrent
    \/ GetProcessorEvaluate
    \/ GetProcessorReturn
    \/ MainUseTemp

(***************************************************************************)
(* module_14.cpp: DataHolder (lines 6..21) and mixedPointerUsage           *)
(* (lines 23..28)                                                          *)
(*                                                                         *)
(* DataHolder declares no copy constructor: the implicit one copies the    *)
(* member data, a pointer.  delete of an allocation that is already freed  *)
(* is undefined: the allocator ends the process, or goes on.               *)
(***************************************************************************)

\* The DataHolder objects made in one run (2 in main, lines 42..43).
MaxHolders == 3

\* The int allocations made in one run.
MaxAllocs == 3

HolderIds == 1..MaxHolders
AllocIds == 1..MaxAllocs

\* The values a DataHolder is constructed with (10 in main).
HolderValues == {10, 20}

\* The first DataHolder not yet constructed, the first int not yet allocated.
NextHolder == Cardinality({h \in HolderIds : hdState[h] # "unborn"}) + 1
NextAlloc == Cardinality({a \in AllocIds : aState[a] # "unalloc"}) + 1

HolderStart ==
    /\ hdState = [h \in HolderIds |-> "unborn"]
    /\ hdData = [h \in HolderIds |-> 0]
    /\ hdFrom = [h \in HolderIds |-> 0]
    /\ aState = [a \in AllocIds |-> "unalloc"]
    /\ aVal = [a \in AllocIds |-> 0]
    /\ aDeletes = [a \in AllocIds |-> 0]
    /\ mxPc = "idle"
    /\ mxRaw = 0
    /\ mxShared = 0
    /\ m14Crashed = FALSE

\* delete ptr: the allocation is freed.  When it was freed before, the
\* delete is undefined: the process goes on or is ended.
Delete(a) ==
    /\ aDeletes' = [aDeletes EXCEPT ![a] = @ + 1]
    /\ aState' = [aState EXCEPT ![a] = "freed"]
    /\ \/ UNCHANGED m14Crashed
       \/ /\ aState[a] = "freed"
          /\ m14Crashed' = TRUE

\* DataHolder(int val) { data = new int(val); }
HolderNew(v) ==
    /\ ~m14Crashed
    /\ NextHolder <= MaxHolders
    /\ NextAlloc <= MaxAllocs
    /\ hdState' = [hdState EXCEPT ![NextHolder] = "alive"]
    /\ hdData' = [hdData EXCEPT ![NextHolder] = NextAlloc]
    /\ aState' = [aState EXCEPT ![NextAlloc] = "live"]
    /\ aVal' = [aVal EXCEPT ![NextAlloc] = v]
    /\ UNCHANGED <<hdFrom, aDeletes, mxPc, mxRaw, mxShared, m14Crashed>>
    /\ UNCHANGED otherThanHolder

\* A copy constructor that allocates an int of its own for the copy.
HolderCopy_Deep(src) ==
    /\ ~m14Crashed
    /\ hdState[src] = "alive"
    /\ NextHolder <= MaxHolders
    /\ NextAlloc <= MaxAllocs
    /\ hdState' = [hdState EXCEPT ![NextHolder] = "alive"]
    /\ hdData' = [hdData EXCEPT ![NextHolder] = NextAlloc]
    /\ hdFrom' = [hdFrom EXCEPT ![NextHolder] = src]
    /\ aState' = [aState EXCEPT ![NextAlloc] = "live"]
    /\ aVal' = [aVal EXCEPT ![NextAlloc] = aVal[hdData[src]]]
    /\ UNCHANGED <<aDeletes, mxPc, mxRaw, mxShared, m14Crashed>>
    /\ UNCHANGED otherThanHolder

\* DataHolder d2 = d1; the implicit copy constructor copies data.
HolderCopy(src) ==
    /\ ~m14Crashed
    /\ hdState[src] = "alive"
    /\ NextHolder <= MaxHolders
    /\ hdState' = [hdState EXCEPT ![NextHolder] = "alive"]
    /\ hdData' = [hdData EXCEPT ![NextHolder] = hdData[src]]
    /\ hdFrom' = [hdFrom EXCEPT ![NextHolder] = src]
    /\ UNCHANGED <<aState, aVal, aDeletes, mxPc, mxRaw, mxShared, m14Crashed>>
    /\ UNCHANGED otherThanHolder

\* ~DataHolder() { delete data; }
HolderDestroy(h) ==
    /\ ~m14Crashed
    /\ hdState[h] = "alive"
    /\ hdState' = [hdState EXCEPT ![h] = "destroyed"]
    /\ Delete(hdData[h])
    /\ UNCHANGED <<hdData, hdFrom, aVal, mxPc, mxRaw, mxShared>>
    /\ UNCHANGED otherThanHolder

\* mixedPointerUsage, line 24: int* raw = new int(42);
MixedNew ==
    /\ ~m14Crashed
    /\ mxPc = "idle"
    /\ NextAlloc <= MaxAllocs
    /\ mxRaw' = NextAlloc
    /\ aState' = [aState EXCEPT ![NextAlloc] = "live"]
    /\ aVal' = [aVal EXCEPT ![NextAlloc] = 42]
    /\ mxPc' = "l24"
    /\ UNCHANGED <<hdState, hdData, hdFrom, aDeletes, mxShared, m14Crashed>>
    /\ UNCHANGED otherThanHolder

\* mixedPointerUsage, line 25: std::shared_ptr<int> shared(raw);
MixedShare ==
    /\ ~m14Crashed
    /\ mxPc = "l24"
    /\ mxShared' = mxRaw
    /\ mxPc' = "l25"
    /\ UNCHANGED <<hdState, hdData, hdFrom, aState, aVal, aDeletes, mxRaw,
                   m14Crashed>>
    /\ UNCHANGED otherThanHolder

\* mixedPointerUsage, line 27: delete raw;
MixedDeleteRaw ==
    /\ ~m14Crashed
    /\ mxPc = "l25"
    /\ Delete(mxRaw)
    /\ mxPc' = "l27"
    /\ UNCHANGED <<hdState, hdData, hdFrom, aVal, mxRaw, mxShared>>
    /\ UNCHANGED otherThanHolder

\* mixedPointerUsage, line 28: shared is destroyed; it is the only owner,
\* so it deletes the pointer it owns.
MixedScopeExit ==
    /\ ~m14Crashed
    /\ mxPc = "l27"
    /\ Delete(mxShared)
    /\ mxPc' = "done"
    /\ UNCHANGED <<hdState, hdData, hdFrom, aVal, mxRaw, mxShared>>
    /\ UNCHANGED otherThanHolder

NextHolderProg ==
    \/ \E v \in HolderValues : HolderNew(v)
    \/ \E h \in HolderIds : HolderCopy(h)
    \/ \E h \in HolderIds : HolderDestroy(h)
    \/ MixedNew
    \/ MixedShare
    \/ MixedDeleteRaw
    \/ MixedScopeExit

(***************************************************************************)
(* verilator_style_bugs.cpp: VFileReader::readFile and readFileCorrect     *)
(***************************************************************************)

\* Calls of the two member functions made in a run.
MaxReadCalls == 2

\* char buffer[4096]: fread is asked for sizeof(buffer) bytes.
BufSize == 4096

\* The files a call can name, by length in bytes; "missing" cannot be
\* opened.
FileLen == [empty |-> 0, short |-> 1, exact |-> BufSize, long |-> BufSize + 1]

Files == {"missing"} \cup DOMAIN FileLen

ReadFns == {"readFile", "readFileCorrect"}

Handles == 1..MaxReadCalls

\* The handle fopen returns next: one that was never returned before.
NextHandle == Cardinality({h \in Handles : hState[h] # "unused"}) + 1

Min(a, b) == IF a <= b THEN a ELSE b

\* What fread(buffer, 1, sizeof(buffer), fp) can return at the start of the
\* file: the bytes there are, up to the buffer size, or 0 on a read error.
FreadResults(file) == {Min(FileLen[file], BufSize), 0}

\* Before any call: the caller's content string is empty, no handle exists.
FileStart ==
    /\ frPc = "idle"
    /\ frFn = "readFile"
    /\ frFile = "missing"
    /\ frFp = 0
    /\ frBytes = 0
    /\ frContent = <<>>
    /\ frOld = <<>>
    /\ frRet = <<>>
    /\ hState = [h \in Handles |-> "unused"]
    /\ hCloses = [h \in Handles |-> 0]
    /\ frCalls = 0

\* fclose(fp)
Fclose(h) ==
    /\ hState' = [hState EXCEPT ![h] = "closed"]
    /\ hCloses' = [hCloses EXCEPT ![h] = @ + 1]

\* Whether the bytesRead == 0 branch closes the handle before it returns:
\* line 70 of readFileCorrect does, line 53 of readFile does not.
ClosesOnZero_Never(fn) == FALSE

ClosesOnZero(fn) == fn = "readFileCorrect"

\* A call of fn(filename, content), content being the caller's string.
ReadCall(fn, file) ==
    /\ frPc \in {"idle", "returned"}
    /\ frCalls < MaxReadCalls
    /\ frPc' = "fopen"
    /\ frFn' = fn
    /\ frFile' = file
    /\ frFp' = 0
    /\ frBytes' = 0
    /\ frOld' = frContent
    /\ frRet' = <<>>
    /\ frCalls' = frCalls + 1
    /\ UNCHANGED <<frContent, hState, hCloses>>
    /\ UNCHANGED otherThanFile

\* FILE* fp = fopen(filename.c_str(), "r"); if (!fp) return false;
ReadFopen ==
    /\ frPc = "fopen"
    /\ IF frFile = "missing"
         THEN /\ frFp' = 0
              /\ frPc' = "returned"
              /\ frRet' = <<FALSE>>
              /\ UNCHANGED hState
         ELSE /\ frFp' = NextHandle
              /\ hState' = [hState EXCEPT ![NextHandle] = "open"]
              /\ frPc' = "fread"
              /\ UNCHANGED frRet
    /\ UNCHANGED <<frFn, frFile, frBytes, frContent, frOld, hCloses, frCalls>>
    /\ UNCHANGED otherThanFile

\* size_t bytesRead = fread(buffer, 1, sizeof(buffer), fp);
ReadFread ==
    /\ frPc = "fread"
    /\ \E n \in FreadResults(frFile) : frBytes' = n
    /\ frPc' = "check"
    /\ UNCHANGED <<frFn, frFile, frFp, frContent, frOld, frRet, hState,
                   hCloses, frCalls>>
    /\ UNCHANGED otherThanFile

\* if (bytesRead == 0) { [fclose(fp);] return false; }
ReadCheckBytes ==
    /\ frPc = "check"
    /\ IF frBytes = 0
         THEN /\ IF ClosesOnZero(frFn)
                   THEN Fclose(frFp)
                   ELSE UNCHANGED <<hState, hCloses>>
              /\ frPc' = "returned"
              /\ frRet' = <<FALSE>>
         ELSE /\ frPc' = "assign"
              /\ UNCHANGED <<frRet, hState, hCloses>>
    /\ UNCHANGED <<frFn, frFile, frFp, frBytes, frContent, frOld, frCalls>>
    /\ UNCHANGED otherThanFile

\* content.assign(buffer, bytesRead); fclose(fp); return true;
ReadAssignClose ==
    /\ frPc = "assign"
    /\ frContent' = <<frFile, frBytes>>
    /\ Fclose(frFp)
    /\ frPc' = "returned"
    /\ frRet' = <<TRUE>>
    /\ UNCHANGED <<frFn, frFile, frFp, frBytes, frOld, frCalls>>
    /\ UNCHANGED otherThanFile

NextFile ==
    \/ \E fn \in ReadFns, file \in Files : ReadCall(fn, file)
    \/ ReadFopen
    \/ ReadFread
    \/ ReadCheckBytes
    \/ ReadAssignClose

(***************************************************************************)
(* verilator_style_bugs.cpp: VCleanExample; pr_simulation.cpp:             *)
(* CleanSignalHandler                                                      *)
(***************************************************************************)

\* Elements added to either container in a run.
MaxCleanLen == 3

\* The values added (an int for addData, a double for addSignal).
CleanValues == {-1, 1, 2}

\* The indices isValidIndex is asked about (size_t).
CleanIndices == 0..(MaxCleanLen + 1)

CleanClasses == {"VCleanExample", "CleanSignalHandler"}

\* The double a / n, kept as the pair <<a, n>>: n = 0 is a division by zero.
DoubleDiv(a, n) == <<a, n>>

\* The double 0.0.
DoubleZero == <<0, 1>>

CleanStart ==
    /\ ceData = <<>>
    /\ csSignals = <<>>
    /\ clRet = <<>>

\* if (m_data.empty()) / if (m_signals.empty())
EmptyCheck_Missing(container) == FALSE

EmptyCheck(container) == Len(container) = 0

\* getAverage of either class on its container.
getAverage(container) ==
    IF EmptyCheck(container)
      THEN DoubleZero
      ELSE DoubleDiv(SumSeq(container), Len(container))

\* return idx < m_data.size(); / return idx < m_signals.size();
isValidIndex(container, idx) == idx < Len(container)

\* VCleanExample::addData(value)
CleanAddData(value) ==
    /\ Len(ceData) < MaxCleanLen
    /\ ceData' = Append(ceData, value)
    /\ clRet' = <<>>
    /\ UNCHANGED csSignals
    /\ UNCHANGED otherThanClean

\* CleanSignalHandler::addSignal(value)
CleanAddSignal(value) ==
    /\ Len(csSignals) < MaxCleanLen
    /\ csSignals' = Append(csSignals, value)
    /\ clRet' = <<>>
    /\ UNCHANGED ceData
    /\ UNCHANGED otherThanClean

\* The container of an object of the class.
ContainerOf(class) == IF class = "VCleanExample" THEN ceData ELSE csSignals

\* VCleanExample::getAverage() / CleanSignalHandler::getAverage()
CleanGetAverage(class) ==
    /\ clRet' = <<class, "getAverage", getAverage(ContainerOf(class))>>
    /\ UNCHANGED <<ceData, csSignals>>
    /\ UNCHANGED otherThanClean

\* VCleanExample::isValidIndex(idx) / CleanSignalHandler::isValidIndex(idx)
CleanIsValidIndex(class, idx) ==
    /\ clRet' = <<class, "isValidIndex", idx,
                  isValidIndex(ContainerOf(class), idx)>>
    /\ UNCHANGED <<ceData, csSignals>>
    /\ UNCHANGED otherThanClean

NextClean ==
    \/ \E v \in CleanValues : CleanAddData(v)
    \/ \E v \in CleanValues : CleanAddSignal(v)
    \/ \E c \in CleanClasses : CleanGetAverage(c)
    \/ \E c \in CleanClasses, idx \in CleanIndices : CleanIsValidIndex(c, idx)

(***************************************************************************)
(* pr_simulation.cpp: EdgeDetector                                         *)
(***************************************************************************)

\* The constructor argument numSignals ranges over 0..MaxSignals.
MaxSignals == 2

\* Edge queries (hasRisingEdge, hasFallingEdge) made in a run.
MaxEdgeQueries == 3

\* The indices passed to updateSignal and the queries (size_t); the largest
\* is out of range for every detector.
EdgeIndices == 0..MaxSignals

EdgeStart ==
    /\ edState = "unborn"
    /\ edNum = 0
    /\ m_lastValues = <<>>
    /\ m_currentValues = <<>>
    /\ m_edgeCount = 0
    /\ edRet = <<>>
    /\ edTrue = 0
    /\ edQueries = 0
    /\ edTicked = FALSE

\* EdgeDetector(numSignals): both vectors resized to numSignals, all false.
EdgeDetectorCtor(numSignals) ==
    /\ edState = "unborn"
    /\ edState' = "alive"
    /\ edNum' = numSignals
    /\ m_lastValues' = [i \in 1..numSignals |-> FALSE]
    /\ m_currentValues' = [i \in 1..numSignals |-> FALSE]
    /\ UNCHANGED <<m_edgeCount, edRet, edTrue, edQueries, edTicked>>
    /\ UNCHANGED otherThanEdge

\* The value hasRisingEdge(index) returns.
RisingEdgeValue(index) ==
    IF index >= Len(m_lastValues)
      THEN FALSE
      ELSE ~m_lastValues[index + 1] /\ m_currentValues[index + 1]

\* The value hasFallingEdge(index) returns.
FallingEdgeValue(index) ==
    IF index >= Len(m_lastValues)
      THEN FALSE
      ELSE m_lastValues[index + 1] /\ ~m_currentValues[index + 1]

\* updateSignal(index, value)
UpdateSignal(index, value) ==
    /\ edState = "alive"
    /\ IF index < Len(m_currentValues)
         THEN m_currentValues' = [m_currentValues EXCEPT ![index + 1] = value]
         ELSE UNCHANGED m_currentValues
    /\ edRet' = <<>>
    /\ edTicked' = FALSE
    /\ UNCHANGED <<edState, edNum, m_lastValues, m_edgeCount, edTrue,
                   edQueries>>
    /\ UNCHANGED otherThanEdge

\* hasRisingEdge(index): m_edgeCount++ comes before the range check.
HasRisingEdge(index) ==
    /\ edState = "alive"
    /\ edQueries < MaxEdgeQueries
    /\ m_edgeCount' = m_edgeCount + 1
    /\ edRet' = <<"hasRisingEdge", index, RisingEdgeValue(index)>>
    /\ edTrue' = edTrue + (IF RisingEdgeValue(index) THEN 1 ELSE 0)
    /\ edQueries' = edQueries + 1
    /\ UNCHANGED <<edState, edNum, m_lastValues, m_currentValues, edTicked>>
    /\ UNCHANGED otherThanEdge

\* hasFallingEdge(index) const
HasFallingEdge(index) ==
    /\ edState = "alive"
    /\ edQueries < MaxEdgeQueries
    /\ edRet' = <<"hasFallingEdge", index, FallingEdgeValue(index)>>
    /\ edTrue' = edTrue + (IF FallingEdgeValue(index) THEN 1 ELSE 0)
    /\ edQueries' = edQueries + 1
    /\ UNCHANGED <<edState, edNum, m_lastValues, m_currentValues,
                   m_edgeCount, edTicked>>
    /\ UNCHANGED otherThanEdge

\* The value tick() assigns to m_lastValues.
TickValue_Keep(last, current) == last

TickValue(last, current) == current

\* tick()
Tick ==
    /\ edState = "alive"
    /\ m_lastValues' = TickValue(m_lastValues, m_currentValues)
    /\ edRet' = <<>>
    /\ edTicked' = TRUE
    /\ UNCHANGED <<edState, edNum, m_currentValues, m_edgeCount, edTrue,
                   edQueries>>
    /\ UNCHANGED otherThanEdge

\* The value getEdgeCount() returns.
getEdgeCount == m_edgeCount

NextEdge ==
    \/ \E n \in 0..MaxSignals : EdgeDetectorCtor(n)
    \/ \E i \in EdgeIndices, v \in BOOLEAN : UpdateSignal(i, v)
    \/ \E i \in EdgeIndices : HasRisingEdge(i)
    \/ \E i \in EdgeIndices : HasFallingEdge(i)
    \/ Tick

(***************************************************************************)
(* pr_simulation.cpp: DelayCalculator                                      *)
(***************************************************************************)

\* addDelay calls made in a run.
MaxDelays == 3

DelaySignals == {"clk", "rst"}

\* The delays given to addDelay (double).
DelayValues == {1, 2}

\* The double -1.0 getSignalDelay returns for an unknown signal.
NoDelay == -1

DelayStart ==
    /\ m_delays = <<>>
    /\ m_signalMap = <<>>
    /\ m_totalDelay = 0
    /\ dlRet = <<>>
    /\ dlLast = <<>>

\* The index addDelay stores for the element it has just pushed, from the
\* size of m_delays after the push.
NewIndex_Size(size) == size

NewIndex(size) == size - 1

\* m[key] = value of a std::map
MapAssign(map, key, value) ==
    [k \in DOMAIN map \cup {key} |-> IF k = key THEN value ELSE map[k]]

\* addDelay(signal, delay)
addDelay(signal, delay) ==
    /\ Len(m_delays) < MaxDelays
    /\ m_delays' = Append(m_delays, delay)
    /\ m_signalMap' = MapAssign(m_signalMap, signal, NewIndex(Len(m_delays')))
    /\ m_totalDelay' = m_totalDelay + delay
    /\ dlRet' = <<>>
    /\ dlLast' = MapAssign(dlLast, signal, delay)
    /\ UNCHANGED otherThanDelay

\* m_delays[index]: the element, or an access outside the vector.
DelaysAt(index) ==
    IF index >= 0 /\ index < Len(m_delays)
      THEN <<"value", m_delays[index + 1]>>
      ELSE <<"out_of_range", index>>

\* getSignalDelay(signal) const
getSignalDelay(signal) ==
    /\ dlRet' = IF signal \notin DOMAIN m_signalMap
                  THEN <<signal, "value", NoDelay>>
                  ELSE <<signal>> \o DelaysAt(m_signalMap[signal])
    /\ UNCHANGED <<m_delays, m_signalMap, m_totalDelay, dlLast>>
    /\ UNCHANGED otherThanDelay

NextDelay ==
    \/ \E s \in DelaySignals, d \in DelayValues : addDelay(s, d)
    \/ \E s \in DelaySignals : getSignalDelay(s)

(***************************************************************************)
(* pr_simulation.cpp: SignalBuffer                                         *)
(***************************************************************************)

\* The constructor argument capacity ranges over 0..MaxCapacity.
MaxCapacity == 3

\* write calls made in a run.
MaxWrites == 4

\* The values given to write (double).
BufferValues == {1, 2}

\* The offsets given to read (int): one more than the capacity allows on
\* either side.
BufferOffsets == (-(MaxCapacity + 1))..(MaxCapacity + 1)

\* The window sizes given to getMovingAverage (size_t).
WindowSizes == 0..(MaxCapacity + 1)

BufferStart ==
    /\ sbState = "unborn"
    /\ m_buffer = <<>>
    /\ m_writeIndex = 0
    /\ m_capacity = 0
    /\ m_wrapped = FALSE
    /\ sbWritten = <<>>
    /\ sbStray = FALSE
    /\ sbRet = <<>>

\* SignalBuffer(capacity): m_buffer resized to capacity, every element 0.0.
SignalBufferCtor(capacity) ==
    /\ sbState = "unborn"
    /\ sbState' = "alive"
    /\ m_capacity' = capacity
    /\ m_buffer' = [i \in 1..capacity |-> 0]
    /\ UNCHANGED <<m_writeIndex, m_wrapped, sbWritten, sbStray, sbRet>>
    /\ UNCHANGED otherThanBuffer

\* if (m_writeIndex >= m_capacity)
WrapCond_Late(index, capacity) == index > capacity

WrapCond(index, capacity) == index >= capacity

\* write(value).  A store past the end of m_buffer (capacity 0) lands
\* outside the vector; the process goes on or is ended by the fault.
write(value) ==
    /\ sbState = "alive"
    /\ Len(sbWritten) < MaxWrites
    /\ sbWritten' = Append(sbWritten, value)
    /\ sbRet' = <<>>
    /\ IF m_writeIndex < Len(m_buffer)
         THEN /\ m_buffer' = [m_buffer EXCEPT ![m_writeIndex + 1] = value]
              /\ UNCHANGED <<sbStray, sbState>>
         ELSE /\ UNCHANGED m_buffer
              /\ sbStray' = TRUE
              /\ sbState' \in {"alive", "crashed"}
    /\ IF WrapCond(m_writeIndex + 1, m_capacity)
         THEN m_writeIndex' = 0 /\ m_wrapped' = TRUE
         ELSE m_writeIndex' = m_writeIndex + 1 /\ UNCHANGED m_wrapped
    /\ UNCHANGED m_capacity
    /\ UNCHANGED otherThanBuffer

\* The index read(offset) computes, lines 122..124.
ReadIndex(offset) ==
    LET idx0 == m_writeIndex + offset
        idx1 == IF idx0 < 0 THEN idx0 + m_capacity ELSE idx0
    IN  IF idx1 >= m_capacity THEN idx1 - m_capacity ELSE idx1

\* The values m_buffer[idx] can yield: the element, or for an index outside
\* the vector whatever lies there.
BufferAt(idx) ==
    IF idx >= 0 /\ idx < Len(m_buffer)
      THEN {m_buffer[idx + 1]}
      ELSE BufferValues \cup {0}

\* read(offset) const
read(offset) ==
    /\ sbState = "alive"
    /\ sbRet' = <<"read", offset, ReadIndex(offset),
                  BufferAt(ReadIndex(offset))>>
    /\ UNCHANGED <<sbState, m_buffer, m_writeIndex, m_capacity, m_wrapped,
                   sbWritten, sbStray>>
    /\ UNCHANGED otherThanBuffer

\* The window getMovingAverage uses.
WindowOf(windowSize) ==
    IF windowSize > m_capacity THEN m_capacity ELSE windowSize

\* sum after the first n rounds of the loop of lines 132..134, which adds
\* read(-i) for i = 0 .. n-1; every one of these reads is inside m_buffer.
RECURSIVE WindowSum(_)
WindowSum(n) ==
    IF n = 0
      THEN 0
      ELSE WindowSum(n - 1) + m_buffer[ReadIndex(-(n - 1)) + 1]

\* getMovingAverage(windowSize) const
getMovingAverage(windowSize) ==
    /\ sbState = "alive"
    /\ sbRet' = <<"getMovingAverage", windowSize,
                  DoubleDiv(WindowSum(WindowOf(windowSize)),
                            WindowOf(windowSize))>>
    /\ UNCHANGED <<sbState, m_buffer, m_writeIndex, m_capacity, m_wrapped,
                   sbWritten, sbStray>>
    /\ UNCHANGED otherThanBuffer

NextBuffer ==
    \/ \E c \in 0..MaxCapacity : SignalBufferCtor(c)
    \/ \E v \in BufferValues : write(v)
    \/ \E o \in BufferOffsets : read(o)
    \/ \E w \in WindowSizes : getMovingAverage(w)

(***************************************************************************)
(* pr_simulation.cpp: SignalStats::getRangePercent;                        *)
(* verilator_style_bugs.cpp: VStatistics::getPercentile                    *)
(***************************************************************************)

\* The arguments range over -MaxPercentArg..MaxPercentArg and the values
\* at the edges of int below.
MaxPercentArg == 6

\* int is 32 bits wide.
IntMax == 2147483647

IntMin == -IntMax - 1

\* The largest quotient whose hundredfold fits in an int.
MaxQuotient == IntMax \div 100

PercentFns == {"getRangePercent", "getPercentile"}

PercentParts ==
    ((-MaxPercentArg)..MaxPercentArg)
        \cup {IntMin, -150, 99, 100, 250, MaxQuotient, MaxQuotient + 1,
              2 * MaxQuotient + 1, IntMax}

PercentTotals == ((-MaxPercentArg)..MaxPercentArg) \cup {100, IntMax}

PercentStart ==
    /\ pcFn = "getRangePercent"
    /\ pcArgs = <<0, 1>>
    /\ pcResult = <<>>

\* a / b of two ints, b # 0 and not INT_MIN / -1: truncation toward zero.
IntDiv(a, b) ==
    IF a = IntMin
      THEN CppDiv(a + (IF b > 0 THEN b ELSE -b), b) - (IF b > 0 THEN 1 ELSE -1)
      ELSE CppDiv(a, b)

\* a + b in 32 bits, wrapping around.
WrapAdd(a, b) ==
    IF b >= 0
      THEN IF a > IntMax - b
             THEN (a - IntMax - 1) + (b - IntMax - 1)
             ELSE a + b
      ELSE IF a < IntMin - b
             THEN (a + IntMax + 1) + (b + IntMax + 1)
             ELSE a + b

\* q * 100 in 32 bits, wrapping around: 100 q = 64 q + 32 q + 4 q.
WrapTimes100(q) ==
    LET q2 == WrapAdd(q, q)
        q4 == WrapAdd(q2, q2)
        q8 == WrapAdd(q4, q4)
        q16 == WrapAdd(q8, q8)
        q32 == WrapAdd(q16, q16)
        q64 == WrapAdd(q32, q32)
    IN  WrapAdd(WrapAdd(q64, q32), q4)

\* return part / total * 100;  (return n / total * 100;)
\* The outcomes of the expression on ints.  A division by zero and
\* INT_MIN / -1 are undefined: the division faults, or yields 0 or the
\* wrapped quotient INT_MIN.  A product outside int is undefined: it wraps
\* around, or faults.
PercentExpr_MultiplyFirst(part, total) ==
    IF total = 0 \/ part > MaxQuotient \/ part < -MaxQuotient
      THEN {<<"fault", 0>>}
      ELSE {<<"value", IntDiv(part * 100, total)>>}

PercentExpr(part, total) ==
    IF total = 0
      THEN {<<"fault", 0>>, <<"value", 0>>}
      ELSE IF part = IntMin /\ total = -1
      THEN {<<"fault", 0>>, <<"value", WrapTimes100(IntMin)>>}
      ELSE LET q == IntDiv(part, total) IN
           IF q > MaxQuotient \/ q < -MaxQuotient
             THEN {<<"fault", 0>>, <<"value", WrapTimes100(q)>>}
             ELSE {<<"value", q * 100>>}

\* A call getRangePercent(part, total) or getPercentile(n, total).
PercentCall(fn, part, total) ==
    /\ pcFn' = fn
    /\ pcArgs' = <<part, total>>
    /\ pcResult' \in PercentExpr(part, total)
    /\ UNCHANGED otherThanPercent

NextPercent ==
    \E fn \in PercentFns, part \in PercentParts, total \in PercentTotals :
        PercentCall(fn, part, total)

(***************************************************************************)
(* sample-pr-001: DataProcessor of after.cpp and DataProcessor of          *)
(* before.cpp, given the same calls                                        *)
(***************************************************************************)

\* addData calls made in a run.
MaxSumLen == 3

\* The values given to addData (int); the largest makes the running sum
\* leave the range of int.
SumValues == {-1, 1, 2, IntMax}

SumStart ==
    /\ afData = <<>>
    /\ afCache = <<>>
    /\ bfData = <<>>
    /\ smRet = <<>>
    /\ smCached = FALSE

\* The loop of getSum in either file: sum += data[i] for i = 0 .. size-1,
\* in int arithmetic, starting from sum.
RECURSIVE SumLoop(_, _)
SumLoop(sum, data) ==
    IF data = <<>> THEN sum ELSE SumLoop(WrapAdd(sum, data[1]), Tail(data))

\* before.cpp, int getSum() const
UncachedGetSum(data) == SumLoop(0, data)

\* after.cpp, addData: whether the cache is deleted and set to nullptr.
InvalidatesCache_Never(cache) == FALSE

InvalidatesCache(cache) == cache # <<>>

\* after.cpp, void addData(int value): cachedSum after the call.
CacheAfterAdd(cache) == IF InvalidatesCache(cache) THEN <<>> ELSE cache

\* after.cpp, int getSum(): cachedSum after the call.
CacheAfterGet(cache, data) ==
    IF cache # <<>> THEN cache ELSE <<SumLoop(0, data)>>

\* after.cpp, int getSum(): the value returned, *cachedSum.
CachedGetSum(cache, data) == CacheAfterGet(cache, data)[1]

\* addData(value) on both objects.
SumAddData(value) ==
    /\ Len(afData) < MaxSumLen
    /\ afData' = Append(afData, value)
    /\ afCache' = CacheAfterAdd(afCache)
    /\ bfData' = Append(bfData, value)
    /\ smRet' = <<>>
    /\ UNCHANGED smCached
    /\ UNCHANGED otherThanSum

\* getSum() on both objects.
SumGetSum ==
    /\ smRet' = <<CachedGetSum(afCache, afData), UncachedGetSum(bfData)>>
    /\ afCache' = CacheAfterGet(afCache, afData)
    /\ smCached' = (afCache # <<>>)
    /\ UNCHANGED <<afData, bfData>>
    /\ UNCHANGED otherThanSum

NextSum ==
    \/ \E v \in SumValues : SumAddData(v)
    \/ SumGetSum

(***************************************************************************)
(* Specifications                                                          *)
(***************************************************************************)

\* The premise of the race is that two threads run accessSharedData: the
\* model starts where main creates them, with the global at its initial
\* value.
InitRace ==
    /\ sharedCounter = 0
    /\ RaceStart
    /\ SpawnStart
    /\ ServerStart
    /\ VNumberCtor(0)
    /\ vrArgs = <<0, 0, 0>> /\ vrResult = <<>>
    /\ OptionsStart
    /\ ConcStart
    /\ HeapStart
    /\ HolderStart
    /\ FileStart
    /\ CleanStart
    /\ EdgeStart
    /\ DelayStart
    /\ BufferStart
    /\ PercentStart
    /\ SumStart

SpecRace == InitRace /\ [][NextRace]_vars

InitSpawn == InitRace

SpecSpawn == InitSpawn /\ [][NextSpawn]_vars

\* A VNumber of any width in the range.
InitVNumber ==
    /\ sharedCounter = 0
    /\ RaceStart
    /\ SpawnStart
    /\ ServerStart
    /\ \E w \in (-MaxWidth)..MaxWidth : VNumberCtor(w)
    /\ vrArgs = <<0, 0, 0>> /\ vrResult = <<>>
    /\ OptionsStart
    /\ ConcStart
    /\ HeapStart
    /\ HolderStart
    /\ FileStart
    /\ CleanStart
    /\ EdgeStart
    /\ DelayStart
    /\ BufferStart
    /\ PercentStart
    /\ SumStart

SpecVNumber == InitVNumber /\ [][NextVNumber]_vars

\* A call of isValidRange with any arguments in the range.
InitValidator ==
    /\ sharedCounter = 0
    /\ RaceStart
    /\ SpawnStart
    /\ ServerStart
    /\ VNumberCtor(0)
    /\ ValidatorStart
    /\ OptionsStart
    /\ ConcStart
    /\ HeapStart
    /\ HolderStart
    /\ FileStart
    /\ CleanStart
    /\ EdgeStart
    /\ DelayStart
    /\ BufferStart
    /\ PercentStart
    /\ SumStart

SpecValidator == InitValidator /\ [][NextValidator]_vars

InitOptions == InitRace

SpecOptions == InitOptions /\ [][NextOptions]_vars

InitConc == InitRace

SpecConc == InitConc /\ [][NextConc]_vars

InitHeap == InitRace

SpecHeap == InitHeap /\ [][NextHeap]_vars

InitHolder == InitRace

SpecHolder == InitHolder /\ [][NextHolderProg]_vars

InitFile == InitRace

SpecFile == InitFile /\ [][NextFile]_vars

InitClean == InitRace

SpecClean == InitClean /\ [][NextClean]_vars

InitEdge == InitRace

SpecEdge == InitEdge /\ [][NextEdge]_vars

InitDelay == InitRace

SpecDelay == InitDelay /\ [][NextDelay]_vars

InitBuffer == InitRace

SpecBuffer == InitBuffer /\ [][NextBuffer]_vars

InitPercent == InitRace

SpecPercent == InitPercent /\ [][NextPercent]_vars

InitSum == InitRace

SpecSum == InitSum /\ [][NextSum]_vars

(***************************************************************************)
(* Claims                                                                  *)
(***************************************************************************)

\* C1: sharedCounter++ is a non-atomic read-modify-write.  With two threads
\* running accessSharedData the counter never exceeds the number of
\* increments performed, and the value main prints falls short of the 2N
\* increments exactly when some store overwrote a value written after its
\* own load (a lost update); the witness is a run that prints less than 2N.
Thm_C1 ==
    /\ sharedCounter <= storesDone
    /\ storesDone <= 2 * NumIncrements
    /\ (lostUpdates = 0 => sharedCounter = storesDone)
    /\ \A k \in 1..Len(printed) :
          /\ storesDone = 2 * NumIncrements
          /\ printed[k] <= 2 * NumIncrements
          /\ (printed[k] < 2 * NumIncrements <=> lostUpdates > 0)

Wit_C1 ==
    /\ Len(printed) = 1
    /\ storesDone = 2 * NumIncrements
    /\ printed[1] < 2 * NumIncrements

SpawnAllJoinable ==
    \A k \in 1..Len(spThreads) : spThreads[k].handle = "joinable"

\* C2 as amended: no thread spawnThreads started is joined or detached
\* before the local vector is destroyed: when control reaches the closing
\* brace all NumSpawned threads exist and are joinable, so the destruction
\* of the vector calls std::terminate and spawnThreads does not return to
\* its caller.  The same holds for the thread of startServer.
Thm_C2 ==
    /\ SpawnAllJoinable
    /\ spPc \in {"scope_exit", "terminated", "returned"}
          => Len(spThreads) = NumSpawned
    /\ spPc # "returned"
    /\ srvPc \in {"created", "terminated", "returned"} => srvHandle = "joinable"
    /\ srvPc # "returned"

Wit_C2 ==
    /\ spPc = "terminated"
    /\ Len(spThreads) = NumSpawned
    /\ SpawnAllJoinable
    /\ srvPc = "terminated"
    /\ srvHandle = "joinable"

\* C2 as stated: once the call of spawnThreads (of startServer) is over, it
\* has returned to its caller with its threads still joinable.
Orig_C2 ==
    /\ spPc \in {"terminated", "returned"}
          => (spPc = "returned" /\ SpawnAllJoinable)
    /\ srvPc \in {"terminated", "returned"}
          => (srvPc = "returned" /\ srvHandle = "joinable")

\* The indices 0 .. n, in order.
UpTo(n) == [k \in 1..(n + 1) |-> k - 1]

\* C3: every call of clearAllBits, for every width, accesses m_value at the
\* indices 0 .. m_value.size() in order: while it runs it has accessed
\* 0 .. i-1, it ends (by returning or by faulting) with the access at index
\* m_value.size(), one past the end, and it never returns without having
\* made it; the words 0 .. size-1 are then zero.
Thm_C3 ==
    /\ vnPc = "loop" => /\ vnI <= Len(m_value) + 1
                        /\ vnAccess = [k \in 1..vnI |-> k - 1]
                        /\ \A k \in 1..Len(m_value) : k <= vnI => m_value[k] = 0
    /\ vnPc = "crashed" => vnAccess = UpTo(Len(m_value))
    /\ vnPc = "returned" => /\ vnAccess = UpTo(Len(m_value))
                            /\ vnPast = "zeroed"
                            /\ \A k \in 1..Len(m_value) : m_value[k] = 0

Wit_C3 ==
    /\ vnPc = "returned"
    /\ vnCalls = 2
    /\ Len(m_value) = 2
    /\ vnAccess = <<0, 1, 2>>

\* C4 as stated: isValidRange returns true for every combination of value,
\* min and max.
Orig_C4 == vrResult # <<>> => vrResult[1] = TRUE

\* C5: every getOption call adds exactly one to m_accessCount, for a key
\* that is present or not, leaves m_options as it was (no entry appears for
\* a missing key), and returns the stored value, or "" for a missing key.
Thm_C5 ==
    /\ [](m_accessCount = optGets)
    /\ [][optGets' # optGets =>
            /\ m_accessCount' = m_accessCount + 1
            /\ m_options' = m_options
            /\ optRet' = <<IF optKey' \in DOMAIN m_options
                           THEN m_options[optKey'] ELSE "">>]_vars

Wit_C5 ==
    /\ optGets = 2
    /\ m_accessCount = 2
    /\ DOMAIN m_options = {"trace"}
    /\ m_options["trace"] = "on"
    /\ optKey = "debug"
    /\ optRet = <<"">>

\* The elements processor p has gained since the call began.
NewElements(p) == cdSize[p] - cdBase

\* Processor p holds the values of all workers, in some order, after its
\* base elements.
HoldsAllValues(p) ==
    /\ NewElements(p) = NumValues
    /\ \A t \in Workers : \E k \in (cdBase + 1)..cdSize[p] :
          cdSlots[p][k] = BatchValue(t)

\* C6: the workers run addData on the same processors with no mutual
\* exclusion.  When processDataConcurrently has returned, every processor
\* has gained at least one and at most values.size() elements, and it has
\* them all unless two workers were inside its addData at the same time; the
\* witness is a return with a processor that gained fewer than values.size().
Thm_C6 ==
    /\ \A p \in ConcProcs :
          /\ (\E t, u \in Workers : t # u /\ InsideAddData(t, p) /\ InsideAddData(u, p))
                => cdOverlap[p]
          /\ NewElements(p) <= NumValues
    /\ cmPc = "after" =>
          /\ \A t \in Workers : ctPc[t] = "done"
          /\ \A p \in ConcProcs :
                /\ NewElements(p) >= 1
                /\ ~cdOverlap[p] => HoldsAllValues(p)

Wit_C6 ==
    /\ cmPc = "after"
    /\ \E p \in ConcProcs : cdOverlap[p] /\ NewElements(p) < NumValues

\* C7: getProcessor returns a pointer to a DataProcessor that is already
\* deleted: its local DataManager is destroyed, and has deleted the object,
\* before the function returns, so temp in main dangles from the moment it
\* is assigned and temp->getName() is a use of a freed object.
Thm_C7 ==
    /\ gpPc \in {"returned", "used", "crashed"} =>
          /\ tempPtr # 0
          /\ tempPtr = gCur["temp"]
          /\ gState["temp"] = "destroyed"
          /\ pState[tempPtr] = "deleted"
    /\ gpPc \in {"idle", "constructed", "added", "evaluated"} => tempPtr = 0
    /\ gpPc = "evaluated" => gpRet # 0 /\ pState[gpRet] = "live"

Wit_C7 ==
    /\ gpPc = "used"
    /\ gState["main"] = "alive"
    /\ Dangling(tempPtr)

\* C8 as stated: while the DataManager is alive, currentProcessor dangles
\* once the vector processors has reallocated its storage after
\* currentProcessor was set.
Orig_C8 ==
    \A m \in Managers :
        (gState[m] = "alive" /\ gCur[m] # 0 /\ gMoved[m]) => Dangling(gCur[m])

\* The int allocations made by getSum of object p that are live.
LiveIntsOf(p) == {a \in IntIds : iOwner[a] = p /\ iState[a] = "live"}

\* C9: a DataProcessor has a cachedSum exactly when getSum was called since
\* its last addData; that allocation is the only live one it has made, while
\* the object lives and after it is deleted: the destructor frees nothing,
\* so the cache of a deleted object stays allocated.
Thm_C9 ==
    \A p \in ProcIds :
        /\ pFresh[p] <=> pCache[p] # 0
        /\ LiveIntsOf(p) = (IF pCache[p] # 0 THEN {pCache[p]} ELSE {})
        /\ Cardinality(LiveIntsOf(p)) <= 1

Wit_C9 ==
    \E p \in ProcIds :
        /\ pState[p] = "deleted"
        /\ pFresh[p]
        /\ iState[pCache[p]] = "live"
        /\ \E a \in IntIds : iOwner[a] = p /\ iState[a] = "freed"

\* The deletes mixedPointerUsage has applied to allocation a.
MixedDeletesOf(a) ==
    IF a # 0 /\ a = mxRaw
    THEN (IF mxPc \in {"l27", "done"} THEN 1 ELSE 0) + (IF mxPc = "done" THEN 1 ELSE 0)
    ELSE 0

\* C10: a copy of a DataHolder holds the same data pointer as its source,
\* and every destroyed DataHolder has applied one delete to the allocation
\* it points to, so destroying a DataHolder and its copy deletes one
\* allocation twice; mixedPointerUsage ends having deleted raw twice, once
\* by delete raw and once by the shared_ptr.
Thm_C10 ==
    /\ \A h \in HolderIds :
          hdFrom[h] # 0 => /\ hdData[h] # 0
                           /\ hdData[h] = hdData[hdFrom[h]]
    /\ \A a \in AllocIds :
          aDeletes[a] =
              Cardinality({h \in HolderIds : hdState[h] = "destroyed" /\ hdData[h] = a})
              + MixedDeletesOf(a)
    /\ mxPc \in {"l25", "l27", "done"} => mxShared = mxRaw
    /\ mxPc = "done" => aDeletes[mxRaw] = 2

Wit_C10 ==
    /\ \E h \in HolderIds :
          /\ hdFrom[h] # 0
          /\ hdState[h] = "destroyed"
          /\ hdState[hdFrom[h]] = "destroyed"
          /\ aDeletes[hdData[h]] = 2
    /\ mxPc = "done"
    /\ aDeletes[mxRaw] = 2


\* C11: after a successful fopen, readFileCorrect has closed the handle
\* exactly once when it returns, on either path; readFile returns false on
\* the bytesRead == 0 path with the handle still open and never closed; on
\* the fopen-failure path and on the bytesRead > 0 path both functions
\* return the same value, leave the same content and (after a successful
\* fopen) have closed the handle exactly once.  No handle is closed twice.
Thm_C11 ==
    /\ \A h \in Handles : hCloses[h] <= 1
    /\ frPc = "returned" =>
         /\ frFp = 0 =>
              /\ frRet = <<FALSE>>
              /\ frContent = frOld
         /\ (frFp # 0 /\ frBytes > 0) =>
              /\ frRet = <<TRUE>>
              /\ frContent = <<frFile, Min(FileLen[frFile], BufSize)>>
              /\ hState[frFp] = "closed"
              /\ hCloses[frFp] = 1
         /\ (frFp # 0 /\ frBytes = 0) =>
              /\ frRet = <<FALSE>>
              /\ frContent = frOld
              /\ frFn = "readFileCorrect" =>
                   hState[frFp] = "closed" /\ hCloses[frFp] = 1
              /\ frFn = "readFile" =>
                   hState[frFp] = "open" /\ hCloses[frFp] = 0

\* readFileCorrect has returned through the bytesRead == 0 path with its
\* handle closed, while the handle of an earlier readFile call is still
\* open.
Wit_C11 ==
    /\ frPc = "returned"
    /\ frFn = "readFileCorrect"
    /\ frFp # 0
    /\ frBytes = 0
    /\ hCloses[frFp] = 1
    /\ \E h \in Handles : h # frFp /\ hState[h] = "open"


\* C12: whatever has been added, getAverage of either clean class never
\* divides by zero: it returns 0.0 when the container is empty and the sum
\* of the elements divided by their number otherwise; isValidIndex(idx)
\* returns true exactly when idx is less than the number of elements added.
Thm_C12 ==
    clRet # <<>> =>
        LET c == ContainerOf(clRet[1]) IN
        /\ clRet[2] = "getAverage" =>
             /\ clRet[3][2] # 0
             /\ Len(c) = 0 => clRet[3] = <<0, 1>>
             /\ Len(c) > 0 => clRet[3] = <<SumSeq(c), Len(c)>>
        /\ clRet[2] = "isValidIndex" =>
             (clRet[4] <=> clRet[3] < Len(c))

\* getAverage has been called on an empty CleanSignalHandler while the
\* VCleanExample holds elements whose sum is 0.
Wit_C12 ==
    /\ clRet # <<>>
    /\ clRet[1] = "CleanSignalHandler"
    /\ clRet[2] = "getAverage"
    /\ csSignals = <<>>
    /\ Len(ceData) = 2
    /\ SumSeq(ceData) = 0


\* C13: after any sequence of updateSignal, tick, hasRisingEdge and
\* hasFallingEdge calls, getEdgeCount equals the number of edge queries
\* that returned true.
Orig_C13 == getEdgeCount = edTrue


\* C18: from a tick() until the next updateSignal, hasRisingEdge(i) and
\* hasFallingEdge(i) return false for every index i, and so did the last
\* query made; in every state the two are never both true for one index,
\* both are false for an index >= numSignals, and m_lastValues and
\* m_currentValues both have size numSignals.
Thm_C18 ==
    edState = "alive" =>
        /\ edTicked =>
             /\ \A i \in EdgeIndices :
                    ~RisingEdgeValue(i) /\ ~FallingEdgeValue(i)
             /\ edRet # <<>> => edRet[3] = FALSE
        /\ \A i \in EdgeIndices : ~(RisingEdgeValue(i) /\ FallingEdgeValue(i))
        /\ \A i \in EdgeIndices :
               i >= edNum => ~RisingEdgeValue(i) /\ ~FallingEdgeValue(i)
        /\ Len(m_lastValues) = edNum
        /\ Len(m_currentValues) = edNum

\* A signal that was high before a tick() has been queried after it: the
\* query returned false although the signal had risen before the tick.
Wit_C18 ==
    /\ edState = "alive"
    /\ edNum = 2
    /\ edTicked
    /\ m_currentValues = <<TRUE, FALSE>>
    /\ edRet = <<"hasRisingEdge", 0, FALSE>>
    /\ edTrue >= 1


\* C14: after any sequence of addDelay calls every index stored in
\* m_signalMap is less than m_delays.size(), so getSignalDelay never
\* indexes m_delays out of range; it returns -1.0 for a signal that was
\* never added and otherwise the delay given to the most recent addDelay
\* for that signal.
Thm_C14 ==
    /\ \A s \in DOMAIN m_signalMap :
           m_signalMap[s] >= 0 /\ m_signalMap[s] < Len(m_delays)
    /\ dlRet # <<>> =>
         /\ dlRet[2] = "value"
         /\ dlRet[1] \notin DOMAIN dlLast => dlRet[3] = -1
         /\ dlRet[1] \in DOMAIN dlLast => dlRet[3] = dlLast[dlRet[1]]

\* getSignalDelay has been asked for a signal that was added twice with
\* different delays, with another signal added in between.
Wit_C14 ==
    /\ dlRet # <<>>
    /\ Len(m_delays) = 3
    /\ m_delays[1] # m_delays[3]
    /\ dlRet[1] \in DOMAIN m_signalMap
    /\ m_signalMap[dlRet[1]] = 2
    /\ DOMAIN m_signalMap = DelaySignals
    /\ m_signalMap[CHOOSE s \in DelaySignals : s # dlRet[1]] = 1


\* C15: for capacity >= 1, after any sequence of write calls m_writeIndex
\* is less than m_capacity: it is the number of writes modulo the capacity,
\* so it is back at 0 after every capacity-th write, and m_wrapped is set
\* from the first of those on; no write stores outside m_buffer; and
\* read(offset) indexes within [0, capacity) for every offset with
\* -capacity <= offset < capacity.
Thm_C15 ==
    (sbState # "unborn" /\ m_capacity >= 1) =>
        /\ m_writeIndex < m_capacity
        /\ m_writeIndex = Len(sbWritten) % m_capacity
        /\ m_wrapped <=> Len(sbWritten) >= m_capacity
        /\ ~sbStray
        /\ sbState = "alive"
        /\ \A o \in (-m_capacity)..(m_capacity - 1) :
               ReadIndex(o) >= 0 /\ ReadIndex(o) < m_capacity
        /\ (/\ sbRet # <<>>
            /\ sbRet[1] = "read"
            /\ sbRet[2] >= -m_capacity
            /\ sbRet[2] < m_capacity) =>
               sbRet[3] >= 0 /\ sbRet[3] < Len(m_buffer)

\* A buffer of capacity 2 has wrapped twice, and read(-2) has been served
\* from inside the buffer.
Wit_C15 ==
    /\ sbState = "alive"
    /\ m_capacity = 2
    /\ Len(sbWritten) = 4
    /\ m_writeIndex = 0
    /\ m_wrapped
    /\ sbRet # <<>>
    /\ sbRet[1] = "read"
    /\ sbRet[2] = -2
    /\ sbRet[3] = 0


\* The last n values given to write.
LastWritten(n) == SubSeq(sbWritten, Len(sbWritten) - n + 1, Len(sbWritten))

\* C19: after at least w writes, with 1 <= w <= capacity,
\* getMovingAverage(w) returns the mean of the w most recently written
\* values.
Orig_C19 ==
    (/\ sbRet # <<>>
     /\ sbRet[1] = "getMovingAverage"
     /\ sbRet[2] >= 1
     /\ sbRet[2] <= m_capacity
     /\ Len(sbWritten) >= sbRet[2]) =>
        sbRet[3] = <<SumSeq(LastWritten(sbRet[2])), sbRet[2]>>


\* The quotient part / total of the last call is defined and its hundredfold
\* fits in an int.
PercentInRange ==
    /\ pcArgs[2] # 0
    /\ ~(pcArgs[1] = IntMin /\ pcArgs[2] = -1)
    /\ IntDiv(pcArgs[1], pcArgs[2]) <= MaxQuotient
    /\ IntDiv(pcArgs[1], pcArgs[2]) >= -MaxQuotient

\* C16 (amended): for total # 0 and a quotient part / total whose
\* hundredfold fits in an int, getRangePercent(part, total) and
\* getPercentile(n, total) return the quotient truncated toward zero, times
\* 100: for every 0 <= part < total the result is 0, and no value strictly
\* between 0 and 100 is returned.
Thm_C16 ==
    (pcResult # <<>> /\ PercentInRange) =>
        /\ pcResult = <<"value", IntDiv(pcArgs[1], pcArgs[2]) * 100>>
        /\ (pcArgs[1] >= 0 /\ pcArgs[1] < pcArgs[2]) => pcResult[2] = 0
        /\ ~(pcResult[2] > 0 /\ pcResult[2] < 100)

\* getPercentile(99, 100) has returned 0 and not 99.
Wit_C16 ==
    /\ pcFn = "getPercentile"
    /\ pcArgs = <<99, 100>>
    /\ pcResult = <<"value", 0>>

\* C16 (as stated): for total # 0 the result is (part div total) * 100,
\* it is 0 for every 0 <= part < total, and no value strictly between 0
\* and 100 is ever returned.
Orig_C16 ==
    (pcResult # <<>> /\ pcArgs[2] # 0) =>
        /\ pcResult[1] = "value"
        /\ pcResult[2] % 100 = 0
        /\ ~(pcArgs[1] = IntMin /\ pcArgs[2] = -1)
              => IntDiv(pcResult[2], 100) = IntDiv(pcArgs[1], pcArgs[2])
        /\ (pcArgs[1] >= 0 /\ pcArgs[1] < pcArgs[2]) => pcResult[2] = 0
        /\ ~(pcResult[2] > 0 /\ pcResult[2] < 100)


\* C17: after any sequence of addData and getSum calls given to both
\* objects, the cached getSum of after.cpp returns what the uncached getSum
\* of before.cpp returns, the sum of all values added so far; and whenever
\* cachedSum is not null it holds the sum of the current data.
Thm_C17 ==
    /\ afData = bfData
    /\ smRet # <<>> =>
         /\ smRet[1] = smRet[2]
         /\ smRet[1] = SumLoop(0, afData)
    /\ afCache # <<>> => afCache[1] = SumLoop(0, afData)

\* getSum has returned the cached value 4 for data of three elements.
Wit_C17 ==
    /\ smRet # <<>>
    /\ smCached
    /\ Len(afData) = 3
    /\ smRet[1] = 4
    /\ afData[3] = 2

====
